---- MODULE Spec2Model ----
(***************************************************************************)
(* rs-torrent-client: the peer handshake (src/peer/handshake.rs), the      *)
(* bencode codec (src/bencode/encoder.rs, src/bencode/decoder.rs) and the  *)
(* torrent metadata parser (src/torrent/file.rs, src/torrent/info_hash.rs) *)
(* and the tracker client (src/tracker/mod.rs).                            *)
(*                                                                         *)
(* Bytes are the integers 0..255.  A Rust range a..b of a buffer is        *)
(* Slice(buf, a, b).  Each specification below drives one part of the      *)
(* program and leaves the variables of the other parts at their idle       *)
(* values.                                                                 *)
(***************************************************************************)
EXTENDS Integers, Sequences, FiniteSets, TLC

VARIABLES
    op,         \* handshake: the entry point running: "do_handshake" | "read"
    pc,         \* handshake: the await point the call is suspended at
    expected,   \* handshake: info_hash argument of do_handshake
    local_id,   \* handshake: peer_id argument of do_handshake
    remote,     \* handshake: the 68 bytes the remote peer has to send
    stalled,    \* handshake: the remote has stopped answering for good
    clock,      \* handshake: time elapsed since the call started
    events,     \* handshake: the I/O operations performed on the socket, in order
    sent,       \* handshake: the bytes written to the stream
    first,      \* handshake: the byte returned by the 1-byte read, or -1
    result,     \* handshake: what the call returned
    wire,       \* handshake: serialize() of the returned Handshake
    checked,    \* handshake: what validate() returned for a Handshake got from read
    stream,     \* handshake: the TcpStream the call works on: "none" | "open" | "closed"
    bphase,     \* bencode: position in the encode / decode pipeline
    bval,       \* bencode: the BencodeValue handed to encode
    bseed,      \* bencode: the hasher state deciding HashMap iteration order
    bbytes,     \* bencode: the bytes handed to decode
    bres,       \* bencode: the result of decode
    bout,       \* bencode: the bytes produced by encode
    tphase,     \* torrent: position in the parse / query sequence
    traw,       \* torrent: the bytes of the .torrent file tdata is decoded
                \*          from, split around the value of its `info` key
    tbuild,     \* torrent: the build profile: overflow checks on or off
    tdata,      \* torrent: the BencodeValue handed to TorrentFile::parse
    tseed,      \* torrent: the hasher state of the info dictionary's HashMap
    tres,       \* torrent: the Result<TorrentFile> of parse
    tcall,      \* torrent: the last method called on the TorrentFile, its
                \*          argument and what it returned
    kbuild,     \* tracker: the build profile: overflow checks on or off
    client,     \* tracker: the Client, once Client::new has returned
    requests,   \* tracker: the AnnounceRequest and the URL of every GET
                \*          issued by announce, in order
    received,   \* tracker: the body of the response to the last GET, if
                \*          one came
    answer      \* tracker: what the last call of announce returned

hsVars == <<op, pc, expected, local_id, remote, stalled, clock, events, sent,
            first, result, wire, checked, stream>>
bVars == <<bphase, bval, bseed, bbytes, bres, bout>>
tVars == <<tphase, traw, tbuild, tdata, tseed, tres, tcall>>
kVars == <<kbuild, client, requests, received, answer>>
vars == <<op, pc, expected, local_id, remote, stalled, clock, events, sent,
          first, result, wire, checked, stream, bphase, bval, bseed, bbytes, bres, bout,
          tphase, traw, tbuild, tdata, tseed, tres, tcall,
          kbuild, client, requests, received, answer>>

-----------------------------------------------------------------------------
(* Generic helpers *)

\* buf[a..b] of Rust: elements a .. b-1, zero based.
Slice(buf, a, b) == SubSeq(buf, a + 1, b)

\* [x; n]
Repeat(x, n) == [i \in 1..n |-> x]

\* s with element i (one based) replaced by x.
SetAt(s, i, x) == [s EXCEPT ![i] = x]

-----------------------------------------------------------------------------
(* Handshake: the data type and its pure functions *)

\* b"BitTorrent protocol"
PSTR ==
    <<66, 105, 116, 84, 111, 114, 114, 101, 110, 116, 32,
      112, 114, 111, 116, 111, 99, 111, 108>>

PSTRLEN == 19
RESERVED_LEN == 8
HASH_LEN == 20
HANDSHAKE_LEN == 68

\* Handshake::new
new(info_hash, peer_id) ==
    [protocol_len |-> PSTRLEN, protocol |-> PSTR,
     reserved |-> Repeat(0, RESERVED_LEN),
     info_hash |-> info_hash, peer_id |-> peer_id]

\* Handshake::serialize: the reserved field of self is not read, bytes
\* 20..28 are written from the literal [0u8; 8].
serialize(h) ==
    LET buf0 == Repeat(0, HANDSHAKE_LEN)
        buf1 == SetAt(buf0, 1, h.protocol_len)
        buf2 == [i \in 1..HANDSHAKE_LEN |->
                    IF i \in 2..20 THEN h.protocol[i - 1] ELSE buf1[i]]
        buf3 == [i \in 1..HANDSHAKE_LEN |->
                    IF i \in 21..28 THEN Repeat(0, RESERVED_LEN)[i - 20] ELSE buf2[i]]
        buf4 == [i \in 1..HANDSHAKE_LEN |->
                    IF i \in 29..48 THEN h.info_hash[i - 28] ELSE buf3[i]]
        buf5 == [i \in 1..HANDSHAKE_LEN |->
                    IF i \in 49..68 THEN h.peer_id[i - 48] ELSE buf4[i]]
    IN  buf5

\* The error values a handshake call returns.  Every one is an anyhow::Error;
\* "type" is the concrete type inside it (what a caller can downcast to):
\* std::io::Error for a `?` on an I/O future, and the type-less message
\* error of anyhow::anyhow!(..) for the three checks.
IoError(kind) == [type |-> "std::io::Error", msg |-> kind]
MsgError(text) == [type |-> "anyhow::anyhow!", msg |-> text]
NoError == [type |-> "none", msg |-> ""]
NoHandshake ==
    [protocol_len |-> 0, protocol |-> <<>>, reserved |-> <<>>,
     info_hash |-> <<>>, peer_id |-> <<>>]

Ok(h) == [state |-> "Ok", h |-> h, err |-> NoError]
Err(e) == [state |-> "Err", h |-> NoHandshake, err |-> e]
Pending == [state |-> "Pending", h |-> NoHandshake, err |-> NoError]

\* Handshake::validate, a Result<()>
NotChecked == [state |-> "none", err |-> NoError]

validate(h, expected_info_hash) ==
    IF h.info_hash # expected_info_hash
    THEN [state |-> "Err", err |-> MsgError("Info hash mismatch")]
    ELSE [state |-> "Ok", err |-> NoError]

\* Steps 4..6 of Handshake::read: what is made of the 67 bytes read after
\* the length byte.
read_parse(protocol_len, buf) ==
    LET protocol == Slice(buf, 0, 19)
    IN  IF protocol # PSTR
        THEN Err(MsgError("Invalid protocol"))
        ELSE Ok([protocol_len |-> protocol_len,
                 protocol |-> protocol,
                 reserved |-> Slice(buf, 19, 27),
                 info_hash |-> Slice(buf, 27, 47),
                 peer_id |-> Slice(buf, 47, 67)])

\* The part of do_handshake after the 67-byte read: protocol check, field
\* extraction, info-hash check, return.
mut_do_handshake_hash_prefix(protocol_len, buf, info_hash) ==
    IF Slice(buf, 0, 19) # PSTR
    THEN Err(MsgError("Invalid protocol"))
    ELSE IF Slice(buf, 27, 46) # Slice(info_hash, 0, 19)
    THEN Err(MsgError("Info hash mismatch"))
    ELSE Ok([info_hash |-> Slice(buf, 27, 47),
             peer_id |-> Slice(buf, 47, 67),
             protocol_len |-> protocol_len,
             protocol |-> PSTR,
             reserved |-> Slice(buf, 19, 27)])

do_handshake_parse(protocol_len, buf, info_hash) ==
    LET protocol == Slice(buf, 0, 19)
        reserved == Slice(buf, 19, 27)
        peer_info_hash == Slice(buf, 27, 47)
        peer_peer_id == Slice(buf, 47, 67)
    IN  IF protocol # PSTR
        THEN Err(MsgError("Invalid protocol"))
        ELSE IF peer_info_hash # info_hash
        THEN Err(MsgError("Info hash mismatch"))
        ELSE Ok([info_hash |-> peer_info_hash,
                 peer_id |-> peer_peer_id,
                 protocol_len |-> protocol_len,
                 protocol |-> PSTR,
                 reserved |-> reserved])

-----------------------------------------------------------------------------
(* Handshake: the inputs explored *)

MaxClock == 2

HashA == [i \in 1..HASH_LEN |-> i]
HashB == [i \in 1..HASH_LEN |-> 100 + i]
PeerLocal == <<45, 82, 84, 48, 48, 48, 49, 45>> \o Repeat(7, 12)
PeerRemote == <<45, 88, 88, 48, 48, 48, 49, 45>> \o Repeat(9, 12)

\* HashA with exactly one byte changed, for every byte position.
OneByteOff == {SetAt(HashA, k, 255) : k \in 1..HASH_LEN}

ExpectedHashes == {HashA, HashB}
RemoteHashes == {HashA, HashB} \cup OneByteOff
RemoteLens == {PSTRLEN, 18}
RemoteProtocols == {PSTR, SetAt(PSTR, 19, 76), SetAt(PSTR, 1, 98)}
RemoteReserved == {Repeat(0, RESERVED_LEN), SetAt(Repeat(0, RESERVED_LEN), 6, 16)}

RemoteMessages ==
    {<<l>> \o p \o r \o h \o PeerRemote :
        l \in RemoteLens, p \in RemoteProtocols,
        r \in RemoteReserved, h \in RemoteHashes}

bIdle ==
    /\ bphase = "idle"
    /\ bval = <<>>
    /\ bseed = 0
    /\ bbytes = <<>>
    /\ bres = <<>>
    /\ bout = <<>>

\* No file: the BencodeValue was built in memory.
NoRaw == [head |-> <<>>, info |-> <<>>, tail |-> <<>>]

tIdle ==
    /\ tphase = "idle"
    /\ traw = NoRaw
    /\ tbuild = "none"
    /\ tdata = <<>>
    /\ tseed = 0
    /\ tres = <<>>
    /\ tcall = <<>>

\* No Client yet, no response yet.
NoClient == [made |-> FALSE, peer_id |-> <<>>, port |-> 0]
NoBody == [ok |-> FALSE, body |-> <<>>]

kIdle ==
    /\ kbuild = "none"
    /\ client = NoClient
    /\ requests = <<>>
    /\ received = NoBody
    /\ answer = <<>>

HsInit ==
    /\ op \in {"do_handshake", "read"}
    /\ pc = IF op = "do_handshake" THEN "connect" ELSE "read_len"
    /\ expected \in ExpectedHashes
    /\ local_id = PeerLocal
    /\ remote \in RemoteMessages
    /\ stalled = FALSE
    /\ clock = 0
    /\ events = <<>>
    /\ sent = <<>>
    /\ first = -1
    /\ result = Pending
    /\ wire = <<>>
    /\ checked = NotChecked
    /\ stream = (IF op = "do_handshake" THEN "none" ELSE "open")
    /\ bIdle
    /\ tIdle
    /\ kIdle

-----------------------------------------------------------------------------
(* Handshake: the steps of do_handshake and of read, one per await *)

\* The length check after the 1-byte read.
mut_len_check_removed(protocol_len) == FALSE

invalid_protocol_len(protocol_len) == protocol_len # 19

\* The `?` after an I/O future: the call returns at the failing step.
mut_retry_step(step) == step

on_io_error(step) == "done"

\* The return of a call ends the scope of its locals.  do_handshake owns the
\* TcpStream it connected (`let mut stream`), which is dropped, and with it
\* the connection closed; read has a `&mut TcpStream` of its caller's.
mut_stream_outlives_call(call, s) == s

end_of_scope(call, s) == IF call = "do_handshake" THEN "closed" ELSE s

\* TcpStream::connect(peer_addr).await?
Connect ==
    /\ op = "do_handshake" /\ pc = "connect" /\ ~stalled
    /\ events' = Append(events, "connect")
    /\ \E outcome \in {"ok", "ConnectionRefused", "TimedOut"} :
        IF outcome = "ok"
        THEN pc' = "write" /\ result' = result /\ stream' = "open"
        ELSE /\ pc' = on_io_error("connect")
             /\ result' = Err(IoError(outcome))
             /\ stream' = stream
    /\ UNCHANGED <<op, expected, local_id, remote, stalled, clock, sent, first,
                   wire, checked>>
    /\ UNCHANGED <<bVars, tVars, kVars>>

\* stream.write_all(&serialized).await?  An error leaves a strict prefix of
\* the 68 bytes on the wire.
WriteAll ==
    /\ op = "do_handshake" /\ pc = "write" /\ ~stalled
    /\ events' = Append(events, "write_all")
    /\ LET our_handshake == new(expected, local_id)
           serialized == serialize(our_handshake)
       IN  \E outcome \in {"ok", "reset"} :
            IF outcome = "ok"
            THEN /\ sent' = sent \o serialized
                 /\ pc' = "read_len"
                 /\ result' = result
                 /\ stream' = stream
            ELSE /\ \E n \in {0, 30} : sent' = sent \o Slice(serialized, 0, n)
                 /\ pc' = on_io_error("write")
                 /\ result' = Err(IoError("ConnectionReset"))
                 /\ stream' = end_of_scope(op, stream)
    /\ UNCHANGED <<op, expected, local_id, remote, stalled, clock, first, wire,
                   checked>>
    /\ UNCHANGED <<bVars, tVars, kVars>>

\* stream.read_exact(&mut [0u8; 1]).await? and the length check.
ReadLen ==
    /\ pc = "read_len" /\ ~stalled
    /\ events' = Append(events, "read_exact(1)")
    /\ \E outcome \in {"ok", "eof"} :
        IF outcome = "ok"
        THEN /\ first' = remote[1]
             /\ IF invalid_protocol_len(remote[1])
                THEN /\ pc' = "done"
                     /\ result' = Err(MsgError("Invalid protocol length"))
                     /\ stream' = end_of_scope(op, stream)
                ELSE /\ pc' = "read_rest"
                     /\ result' = result
                     /\ stream' = stream
        ELSE /\ first' = first
             /\ pc' = on_io_error("read_len")
             /\ result' = Err(IoError("UnexpectedEof"))
             /\ stream' = end_of_scope(op, stream)
    /\ UNCHANGED <<op, expected, local_id, remote, stalled, clock, sent, wire,
                   checked>>
    /\ UNCHANGED <<bVars, tVars, kVars>>

\* stream.read_exact(&mut [0u8; 67]).await? and everything up to the return.
\* The info-hash comparison is logged as "validate" when it is reached.
ReadRest ==
    /\ pc = "read_rest" /\ ~stalled
    /\ \E outcome \in {"ok", "eof"} :
        IF outcome = "ok"
        THEN LET buf == Slice(remote, 1, HANDSHAKE_LEN)
             IN  /\ result' = IF op = "read"
                              THEN read_parse(first, buf)
                              ELSE do_handshake_parse(first, buf, expected)
                 /\ events' = IF op = "do_handshake" /\ Slice(buf, 0, 19) = PSTR
                              THEN events \o <<"read_exact(67)", "validate">>
                              ELSE Append(events, "read_exact(67)")
                 /\ pc' = "done"
        ELSE /\ result' = Err(IoError("UnexpectedEof"))
             /\ events' = Append(events, "read_exact(67)")
             /\ pc' = on_io_error("read_rest")
    /\ stream' = end_of_scope(op, stream)
    /\ UNCHANGED <<op, expected, local_id, remote, stalled, clock, sent, first,
                   wire, checked>>
    /\ UNCHANGED <<bVars, tVars, kVars>>

\* The caller of Handshake::read checks the Handshake it got against the
\* info-hash of its torrent.
Validate ==
    /\ op = "read" /\ pc = "done" /\ result.state = "Ok" /\ checked = NotChecked
    /\ checked' = validate(result.h, expected)
    /\ UNCHANGED <<op, pc, expected, local_id, remote, stalled, clock, events,
                   sent, first, result, wire, stream>>
    /\ UNCHANGED <<bVars, tVars, kVars>>

\* The caller serializes the Handshake it got back.
Serialize ==
    /\ pc = "done" /\ result.state = "Ok" /\ wire = <<>>
    /\ wire' = serialize(result.h)
    /\ UNCHANGED <<op, pc, expected, local_id, remote, stalled, clock, events,
                   sent, first, result, checked, stream>>
    /\ UNCHANGED <<bVars, tVars, kVars>>

\* The remote stops answering once the connection is established: it sends
\* nothing more and does not close the connection either.  (A connect that
\* is never accepted is ended by the operating system with an error, and 68
\* bytes fit the send buffer of a fresh connection; a read has no such
\* limit.)
RemoteStalls ==
    /\ pc \in {"read_len", "read_rest"} /\ ~stalled
    /\ stalled' = TRUE
    /\ UNCHANGED <<op, pc, expected, local_id, remote, clock, events, sent,
                   first, result, wire, checked, stream>>
    /\ UNCHANGED <<bVars, tVars, kVars>>

\* Time passes while the call is suspended.
Tick ==
    /\ pc # "done" /\ clock < MaxClock
    /\ clock' = clock + 1
    /\ UNCHANGED <<op, pc, expected, local_id, remote, stalled, events, sent,
                   first, result, wire, checked, stream>>
    /\ UNCHANGED <<bVars, tVars, kVars>>

HsNext ==
    \/ Connect
    \/ WriteAll
    \/ ReadLen
    \/ ReadRest
    \/ Validate
    \/ Serialize
    \/ RemoteStalls
    \/ Tick

SpecHandshake == HsInit /\ [][HsNext]_vars

\* The runtime polls a suspended call whenever its I/O is ready, and time
\* does not stop.
FairHandshake ==
    /\ HsInit /\ [][HsNext]_vars
    /\ WF_vars(Connect) /\ WF_vars(WriteAll) /\ WF_vars(ReadLen)
    /\ WF_vars(ReadRest) /\ WF_vars(Tick)

-----------------------------------------------------------------------------
(* Handshake: claims *)

RemoteInfoHash == Slice(remote, 28, 48)
RemoteProtocol == Slice(remote, 1, 20)

\* C1: do_handshake returns Ok(h) only if the remote's bytes start with 19,
\* continue with "BitTorrent protocol" and carry the expected info-hash; then
\* h.info_hash is the expected info-hash and h.reserved, h.peer_id are the
\* remote's bytes 20..28 and 48..68.  A remote info-hash that differs in any
\* byte never gives Ok.
C1_OkOnlyIfAuthentic ==
    /\ (op = "do_handshake" /\ result.state = "Ok") =>
        /\ remote[1] = 19
        /\ RemoteProtocol = PSTR
        /\ RemoteInfoHash = expected
        /\ result.h.info_hash = expected
        /\ result.h.reserved = Slice(remote, 20, 28)
        /\ result.h.peer_id = Slice(remote, 48, 68)
    /\ (op = "do_handshake" /\ \E k \in 1..HASH_LEN : RemoteInfoHash[k] # expected[k])
        => result.state # "Ok"
    /\ (op = "read" /\ checked.state = "Ok") =>
        /\ RemoteInfoHash = expected
        /\ result.h.info_hash = expected

C1_Witness ==
    /\ op = "do_handshake" /\ pc = "done" /\ result.state = "Ok"
    /\ result.h.reserved # Repeat(0, RESERVED_LEN)

\* C2: when the first byte received is not 19, the receive step fails with
\* the invalid-protocol-length error and no read follows the 1-byte read.
C2_NoReadAfterBadLength ==
    (first # -1 /\ first # 19) =>
        /\ pc = "done"
        /\ result = Err(MsgError("Invalid protocol length"))
        /\ events[Len(events)] = "read_exact(1)"
        /\ \A i \in 1..Len(events) : events[i] # "read_exact(67)"

C2_Witness == op = "read" /\ first = 18 /\ pc = "done"

\* The handshake was rejected by a check of the protocol identifier.
RejectedForProtocol ==
    /\ op = "do_handshake" /\ pc = "done" /\ result.state = "Err"
    /\ result.err.type # "std::io::Error"
    /\ (remote[1] # 19 \/ RemoteProtocol # PSTR)

\* The handshake was rejected by the info-hash check.
RejectedForInfoHash ==
    /\ op = "do_handshake" /\ pc = "done" /\ result.state = "Err"
    /\ result.err.type # "std::io::Error"
    /\ remote[1] = 19 /\ RemoteProtocol = PSTR
    /\ RemoteInfoHash # expected

\* C3: a bad length byte or protocol literal is reported with the
\* invalid-protocol kind and a mismatched info-hash with the
\* info-hash-mismatch kind, two kinds of TorrentError a caller can tell from
\* each other and from an I/O error.
C3_DistinctErrorKinds ==
    /\ RejectedForProtocol =>
        result.err.type = "TorrentError::HandshakeInvalidProtocol"
    /\ RejectedForInfoHash =>
        result.err.type = "TorrentError::HandshakeInfoHashMismatch"

\* C4: a do_handshake whose remote has stopped answering eventually returns
\* (with a timeout error).
C4_StalledHandshakeReturns ==
    (op = "do_handshake" /\ stalled) ~> (pc = "done" /\ result.state = "Err")

Canon == <<"connect", "write_all", "read_exact(1)", "read_exact(67)", "validate">>

LastEvent == events[Len(events)]

\* The step an error comes from.
StepOf(e) ==
    CASE e \in {IoError("ConnectionRefused"), IoError("TimedOut")} -> {"connect"}
      [] e = IoError("ConnectionReset") -> {"write_all"}
      [] e = IoError("UnexpectedEof") -> {"read_exact(1)", "read_exact(67)"}
      [] e = MsgError("Invalid protocol length") -> {"read_exact(1)"}
      [] e = MsgError("Invalid protocol") -> {"read_exact(67)"}
      [] e = MsgError("Info hash mismatch") -> {"validate"}
      [] OTHER -> {}

C5_Order ==
    op = "do_handshake" =>
        /\ Len(events) <= Len(Canon)
        /\ events = SubSeq(Canon, 1, Len(events))
        /\ Len(sent) <= HANDSHAKE_LEN
        /\ (Len(events) >= 3 => sent = serialize(new(expected, local_id)))
        /\ (result.state = "Err" => pc = "done" /\ LastEvent \in StepOf(result.err))
        /\ (result.state = "Ok" => pc = "done" /\ events = Canon)
        /\ (result.state = "Pending" => pc # "done")

\* C5: one do_handshake call runs connect, write of the 68 bytes, read of 1
\* byte, read of 67 bytes, validate, in this order; the error of the first
\* failing step is the result and nothing runs after it; there is at most
\* one connect and one write.
C5_OrderedFailFast ==
    /\ []C5_Order
    /\ [][pc = "done" => (events' = events /\ sent' = sent /\ result' = result)]_vars

C5_Witness ==
    /\ op = "do_handshake" /\ pc = "done"
    /\ result = Err(IoError("UnexpectedEof")) /\ Len(events) = 4

\* C6: serialize returns 68 bytes: byte 0 protocol_len, bytes 1..20 protocol,
\* 20..28 reserved, 28..48 info_hash, 48..68 peer_id; for Handshake::new byte
\* 0 is 19, bytes 1..20 are the literal and bytes 20..28 are zero.
C6_SerializeLayout ==
    /\ wire # <<>> =>
        /\ Len(wire) = 68
        /\ wire[1] = result.h.protocol_len
        /\ Slice(wire, 1, 20) = result.h.protocol
        /\ Slice(wire, 20, 28) = result.h.reserved
        /\ Slice(wire, 28, 48) = result.h.info_hash
        /\ Slice(wire, 48, 68) = result.h.peer_id
    /\ Len(sent) = HANDSHAKE_LEN =>
        /\ sent[1] = 19
        /\ Slice(sent, 1, 20) = PSTR
        /\ Slice(sent, 20, 28) = Repeat(0, 8)
        /\ Slice(sent, 28, 48) = expected
        /\ Slice(sent, 48, 68) = local_id

\* Handshake::read on a stream that delivers exactly `bytes` (68 of them):
\* the length byte and its check, then the 67 remaining bytes.
ReadOf(bytes) ==
    IF invalid_protocol_len(bytes[1])
    THEN Err(MsgError("Invalid protocol length"))
    ELSE read_parse(bytes[1], Slice(bytes, 1, HANDSHAKE_LEN))

\* C28: for every Handshake h that Handshake::read returned, reading the 68
\* bytes of h.serialize() gives back a Handshake equal to h in all five
\* fields, whatever the reserved bytes of h.
C28_WireRoundTrip ==
    (op = "read" /\ result.state = "Ok" /\ wire # <<>>) =>
        ReadOf(wire) = Ok(result.h)

\* C29: the connection do_handshake opens is the call's alone and is closed
\* by the time the call returns, on every path: after a failed write, a
\* failed read, a bad length byte, a bad protocol literal, an info-hash
\* mismatch, and on success, where the value returned is the five fields of
\* a Handshake and nothing of the stream.  No finished call leaves a
\* connection open.
C29_NoConnectionLeak ==
    op = "do_handshake" =>
        /\ pc = "done" => stream # "open"
        /\ stream = "open" => pc \in {"write", "read_len", "read_rest"}
        /\ stream = "none" => (Len(events) <= 1 /\ sent = <<>>)
        /\ (pc = "done" /\ Len(events) >= 2) => stream = "closed"
        /\ result.state = "Ok" =>
              DOMAIN result.h = {"protocol_len", "protocol", "reserved",
                                 "info_hash", "peer_id"}

\* A call that connected, wrote, read all 68 bytes and returned an error.
C29_Witness ==
    /\ op = "do_handshake" /\ pc = "done"
    /\ result = Err(MsgError("Info hash mismatch"))
    /\ events = Canon
    /\ stream = "closed"

-----------------------------------------------------------------------------
(* Bencode: values *)

\* The ASCII codes the format uses.
CH == [zero |-> 48, nine |-> 57, colon |-> 58, minus |-> 45, plus |-> 43,
       i |-> 105, l |-> 108, d |-> 100, e |-> 101]

\* An i64 is kept in sign and magnitude, the magnitude in decimal digits
\* without leading zeros (zero is <<0>>, never negative), because the model
\* checker's integers are 32 bits wide.  |i64::MAX| and |i64::MIN|:
I64_MAX_MAG == <<9, 2, 2, 3, 3, 7, 2, 0, 3, 6, 8, 5, 4, 7, 7, 5, 8, 0, 7>>
I64_MIN_MAG == <<9, 2, 2, 3, 3, 7, 2, 0, 3, 6, 8, 5, 4, 7, 7, 5, 8, 0, 8>>

I64(neg, mag) == [neg |-> neg, mag |-> mag]

\* a <= b for two magnitudes.
RECURSIVE DigitsLE(_, _, _)
DigitsLE(a, b, k) ==
    IF k > Len(a) THEN TRUE
    ELSE IF a[k] # b[k] THEN a[k] < b[k]
    ELSE DigitsLE(a, b, k + 1)

MagLE(a, b) ==
    \/ Len(a) < Len(b)
    \/ Len(a) = Len(b) /\ DigitsLE(a, b, 1)

\* enum BencodeValue
BString(s) == [t |-> "String", v |-> s]
BInteger(n) == [t |-> "Integer", v |-> n]
BList(xs) == [t |-> "List", v |-> xs]
BDict(m) == [t |-> "Dict", v |-> m]
NoValue == [t |-> "none", v |-> <<>>]

\* Ord for Vec<u8>: byte-lexicographic, a proper prefix first.
LexLess(a, b) ==
    \E k \in 1..(Len(a) + 1) :
        /\ \A j \in 1..(k - 1) : j <= Len(b) /\ a[j] = b[j]
        /\ k <= Len(b)
        /\ (k > Len(a) \/ a[k] < b[k])

-----------------------------------------------------------------------------
(* Bencode: the encoder.  The writer is a Vec<u8>, whose writes never fail; *)
(* the match arm written BencodeValue::Dicts is read as the Dict variant.   *)

\* Display for usize
RECURSIVE fmt_usize(_)
fmt_usize(n) ==
    IF n < 10 THEN <<CH.zero + n>>
    ELSE fmt_usize(n \div 10) \o <<CH.zero + (n % 10)>>

\* Display for i64
mut_fmt_i64_unsigned(n) == [k \in 1..Len(n.mag) |-> CH.zero + n.mag[k]]

fmt_i64(n) ==
    (IF n.neg THEN <<CH.minus>> ELSE <<>>)
        \o [k \in 1..Len(n.mag) |-> CH.zero + n.mag[k]]

encode_string(s) == fmt_usize(Len(s)) \o <<CH.colon>> \o s

encode_integer(n) == <<CH.i>> \o fmt_i64(n) \o <<CH.e>>

\* The least element of a non-empty set of byte strings.
LexMin(S) == CHOOSE x \in S : \A y \in S : y = x \/ LexLess(x, y)

RECURSIVE Ascending(_)
Ascending(S) ==
    IF S = {} THEN <<>>
    ELSE LET m == LexMin(S) IN <<m>> \o Ascending(S \ {m})

Reverse(q) == [k \in 1..Len(q) |-> q[Len(q) + 1 - k]]
Rotate(q, r) == [k \in 1..Len(q) |-> q[((k - 1 + r) % Len(q)) + 1]]

\* dict.keys().collect(): the keys in the iteration order of the HashMap,
\* which depends on the state of its hasher and on nothing the program
\* controls.  The hasher state `seed` picks a rotation of the keys and a
\* direction.
keys_collect(dict, seed) ==
    LET asc == Ascending(DOMAIN dict)
    IN  IF asc = <<>> THEN <<>>
        ELSE IF seed % 2 = 1 THEN Reverse(Rotate(asc, seed \div 2))
        ELSE Rotate(asc, seed \div 2)

\* keys.sort_unstable(), as an insertion sort: the keys are distinct, so
\* every sort gives the same sequence.
RECURSIVE Insert(_, _)
Insert(q, x) ==
    IF q = <<>> THEN <<x>>
    ELSE IF LexLess(x, Head(q)) THEN <<x>> \o q
    ELSE <<Head(q)>> \o Insert(Tail(q), x)

RECURSIVE InsertionSort(_)
InsertionSort(q) ==
    IF q = <<>> THEN <<>>
    ELSE Insert(InsertionSort(Tail(q)), Head(q))

mut_sort_removed(keys) == keys

sort_unstable(keys) == InsertionSort(keys)

RECURSIVE encode_value(_, _)
RECURSIVE encode_items(_, _, _)
RECURSIVE encode_entries(_, _, _, _)

\* for item in list { encode_value(writer, item)?; }
encode_items(list, k, seed) ==
    IF k > Len(list) THEN <<>>
    ELSE encode_value(list[k], seed) \o encode_items(list, k + 1, seed)

encode_list(list, seed) == <<CH.l>> \o encode_items(list, 1, seed) \o <<CH.e>>

\* for key in keys { encode_string(writer, key)?; encode_value(..)?; }
encode_entries(dict, keys, k, seed) ==
    IF k > Len(keys) THEN <<>>
    ELSE encode_string(keys[k]) \o encode_value(dict[keys[k]], seed)
            \o encode_entries(dict, keys, k + 1, seed)

encode_dict(dict, seed) ==
    LET keys == sort_unstable(keys_collect(dict, seed))
    IN  <<CH.d>> \o encode_entries(dict, keys, 1, seed) \o <<CH.e>>

encode_value(value, seed) ==
    CASE value.t = "String" -> encode_string(value.v)
      [] value.t = "Integer" -> encode_integer(value.v)
      [] value.t = "List" -> encode_list(value.v, seed)
      [] value.t = "Dict" -> encode_dict(value.v, seed)

encode(value, seed) == encode_value(value, seed)

-----------------------------------------------------------------------------
(* Bencode: the decoder.  The reader is a Peekable<Bytes<R>> over the bytes *)
(* `inp`; pos is the index of the next unread byte (one based), so that     *)
(* pos - 1 bytes have been consumed.  R is an in-memory reader: reads do    *)
(* not fail, they end.                                                      *)

NoBErr == [kind |-> "none", detail |-> ""]
BErr(kind, detail) == [kind |-> kind, detail |-> detail]

Done(val, pos) == [ok |-> TRUE, val |-> val, pos |-> pos, err |-> NoBErr]
Fail(kind, detail, pos) ==
    [ok |-> FALSE, val |-> NoValue, pos |-> pos, err |-> BErr(kind, detail)]

IsDigit(c) == c \in CH.zero..CH.nine

\* String::from_utf8: the validity check of the standard library.
RECURSIVE IsUtf8(_, _)
IsUtf8(b, k) ==
    LET Cont(j, lo, hi) == j <= Len(b) /\ b[j] \in lo..hi
    IN  IF k > Len(b) THEN TRUE
        ELSE IF b[k] < 128 THEN IsUtf8(b, k + 1)
        ELSE IF b[k] \in 194..223
            THEN Cont(k + 1, 128, 191) /\ IsUtf8(b, k + 2)
        ELSE IF b[k] = 224
            THEN Cont(k + 1, 160, 191) /\ Cont(k + 2, 128, 191) /\ IsUtf8(b, k + 3)
        ELSE IF b[k] \in (225..236) \cup {238, 239}
            THEN Cont(k + 1, 128, 191) /\ Cont(k + 2, 128, 191) /\ IsUtf8(b, k + 3)
        ELSE IF b[k] = 237
            THEN Cont(k + 1, 128, 159) /\ Cont(k + 2, 128, 191) /\ IsUtf8(b, k + 3)
        ELSE IF b[k] = 240
            THEN /\ Cont(k + 1, 144, 191) /\ Cont(k + 2, 128, 191)
                 /\ Cont(k + 3, 128, 191) /\ IsUtf8(b, k + 4)
        ELSE IF b[k] \in 241..243
            THEN /\ Cont(k + 1, 128, 191) /\ Cont(k + 2, 128, 191)
                 /\ Cont(k + 3, 128, 191) /\ IsUtf8(b, k + 4)
        ELSE IF b[k] = 244
            THEN /\ Cont(k + 1, 128, 143) /\ Cont(k + 2, 128, 191)
                 /\ Cont(k + 3, 128, 191) /\ IsUtf8(b, k + 4)
        ELSE FALSE

\* read_until: the loop, then the conversion of the buffer to a String.
RECURSIVE read_until_loop(_, _, _, _)
read_until_loop(inp, pos, delimiter, buffer) ==
    IF pos > Len(inp) THEN Fail("UnexpectedEOI", "", pos)
    ELSE IF inp[pos] = delimiter THEN Done(buffer, pos + 1)
    ELSE read_until_loop(inp, pos + 1, delimiter, Append(buffer, inp[pos]))

read_until(inp, pos, delimiter) ==
    LET r == read_until_loop(inp, pos, delimiter, <<>>)
    IN  IF ~r.ok THEN r
        ELSE IF ~IsUtf8(r.val, 1)
        THEN Fail("InvalidFormat", "Non-UTF8 characters in length/integer", r.pos)
        ELSE r

\* str::parse::<i64>: an optional sign, then decimal digits accumulated with
\* checked_mul and checked_add (checked_sub for a negative number).
RECURSIVE parse_i64_digits(_, _, _, _)
parse_i64_digits(digits, k, acc, limit) ==
    IF k > Len(digits) THEN [ok |-> TRUE, mag |-> acc]
    ELSE IF ~IsDigit(digits[k]) THEN [ok |-> FALSE, mag |-> acc]
    ELSE LET d == digits[k] - CH.zero
             next == IF acc = <<0>> THEN <<d>> ELSE Append(acc, d)
         IN  IF ~MagLE(next, limit) THEN [ok |-> FALSE, mag |-> acc]
             ELSE parse_i64_digits(digits, k + 1, next, limit)

mut_parse_i64_abs(src) ==
    IF src = <<>> \/ (src[1] \in {CH.plus, CH.minus} /\ Len(src) = 1)
    THEN [ok |-> FALSE, val |-> I64(FALSE, <<0>>)]
    ELSE LET digits == IF src[1] \in {CH.plus, CH.minus} THEN Tail(src) ELSE src
             r == parse_i64_digits(digits, 1, <<0>>, I64_MAX_MAG)
         IN  [ok |-> r.ok, val |-> I64(FALSE, r.mag)]

parse_i64(src) ==
    IF src = <<>> THEN [ok |-> FALSE, val |-> I64(FALSE, <<0>>)]
    ELSE IF src[1] \in {CH.plus, CH.minus} /\ Len(src) = 1
    THEN [ok |-> FALSE, val |-> I64(FALSE, <<0>>)]
    ELSE LET is_positive == src[1] # CH.minus
             digits == IF src[1] \in {CH.plus, CH.minus} THEN Tail(src) ELSE src
             r == parse_i64_digits(digits, 1, <<0>>,
                                   IF is_positive THEN I64_MAX_MAG ELSE I64_MIN_MAG)
         IN  [ok |-> r.ok, val |-> I64(~is_positive /\ r.mag # <<0>>, r.mag)]

\* |usize::MAX| and |isize::MAX| of a 64-bit target, in decimal digits.
USIZE_MAX_MAG == <<1, 8, 4, 4, 6, 7, 4, 4, 0, 7, 3, 7, 0, 9, 5, 5, 1, 6, 1, 5>>
ISIZE_MAX_MAG == <<9, 2, 2, 3, 3, 7, 2, 0, 3, 6, 8, 5, 4, 7, 7, 5, 8, 0, 7>>

\* str::parse::<usize>: an optional '+', then decimal digits accumulated
\* with checked_mul and checked_add; a '-' is an invalid digit.  The value
\* is kept as a magnitude, like an i64.
RECURSIVE parse_usize_digits(_, _, _)
parse_usize_digits(digits, k, acc) ==
    IF k > Len(digits) THEN [ok |-> TRUE, mag |-> acc]
    ELSE IF ~IsDigit(digits[k]) THEN [ok |-> FALSE, mag |-> acc]
    ELSE LET d == digits[k] - CH.zero
             next == IF acc = <<0>> THEN <<d>> ELSE Append(acc, d)
         IN  IF ~MagLE(next, USIZE_MAX_MAG) THEN [ok |-> FALSE, mag |-> acc]
             ELSE parse_usize_digits(digits, k + 1, next)

parse_usize(src) ==
    IF src = <<>> THEN [ok |-> FALSE, mag |-> <<0>>]
    ELSE IF src[1] \in {CH.plus, CH.minus} /\ Len(src) = 1
    THEN [ok |-> FALSE, mag |-> <<0>>]
    ELSE parse_usize_digits(IF src[1] = CH.plus THEN Tail(src) ELSE src, 1, <<0>>)

\* The number a magnitude of at most nine digits stands for.
RECURSIVE MagValue(_, _, _)
MagValue(mag, k, acc) ==
    IF k > Len(mag) THEN acc ELSE MagValue(mag, k + 1, acc * 10 + mag[k])

\* A magnitude is more than `n`, a number of bytes of the input.
MagExceeds(mag, n) == Len(mag) > 9 \/ MagValue(mag, 1, 0) > n

\* decode_string.  vec![0; length] panics with "capacity overflow" when
\* length is more than isize::MAX, before any byte of the data is read; a
\* smaller allocation is taken to succeed.  The loop then reads `length`
\* bytes or meets the end of the input.
decode_string(inp, pos) ==
    LET length_str == read_until(inp, pos, CH.colon)
    IN  IF ~length_str.ok THEN length_str
        ELSE LET length == parse_usize(length_str.val)
                 start == length_str.pos
             IN  IF ~length.ok THEN Fail("InvalidStringLength", "", start)
                 ELSE IF ~MagLE(length.mag, ISIZE_MAX_MAG)
                 THEN Fail("panic", "capacity overflow", start)
                 ELSE IF MagExceeds(length.mag, Len(inp) - start + 1)
                 THEN Fail("UnexpectedEOI", "", Len(inp) + 1)
                 ELSE Done(SubSeq(inp, start, start + MagValue(length.mag, 1, 0) - 1),
                           start + MagValue(length.mag, 1, 0))

\* The three checks of decode_integer on the text between 'i' and 'e'.
mut_no_leading_zero_check(num_str) ==
    \/ num_str = <<CH.minus, CH.zero>>
    \/ num_str = <<>>

rejected_num_str(num_str) ==
    \/ Len(num_str) > 1 /\ num_str[1] = CH.zero
    \/ num_str = <<CH.minus, CH.zero>>
    \/ num_str = <<>>

decode_integer(inp, pos) ==
    IF pos > Len(inp) THEN Fail("UnexpectedEOI", "", pos)
    ELSE IF inp[pos] # CH.i
    THEN Fail("InvalidFormat", "Integer must start with 'i'", pos + 1)
    ELSE LET num_str == read_until(inp, pos + 1, CH.e)
         IN  IF ~num_str.ok THEN num_str
             ELSE IF rejected_num_str(num_str.val)
             THEN Fail("InvalidInteger", "", num_str.pos)
             ELSE LET n == parse_i64(num_str.val)
                  IN  IF ~n.ok THEN Fail("InvalidInteger", "", num_str.pos)
                      ELSE Done(n.val, num_str.pos)

RECURSIVE decode_next(_, _)
RECURSIVE decode_list_loop(_, _, _)
RECURSIVE decode_dict_loop(_, _, _)
RECURSIVE mut_list_end_not_consumed(_, _, _)

\* The loop of decode_list.
mut_list_end_not_consumed(inp, pos, list) ==
    IF pos > Len(inp) THEN Fail("UnexpectedEOI", "", pos)
    ELSE IF inp[pos] = CH.e THEN Done(list, pos)
    ELSE LET item == decode_next(inp, pos)
         IN  IF ~item.ok THEN item
             ELSE mut_list_end_not_consumed(inp, item.pos, Append(list, item.val))

decode_list_loop(inp, pos, list) ==
    IF pos > Len(inp) THEN Fail("UnexpectedEOI", "", pos)
    ELSE IF inp[pos] = CH.e THEN Done(list, pos + 1)
    ELSE LET item == decode_next(inp, pos)
         IN  IF ~item.ok THEN item
             ELSE decode_list_loop(inp, item.pos, Append(list, item.val))

decode_list(inp, pos) ==
    IF pos > Len(inp) THEN Fail("UnexpectedEOI", "", pos)
    ELSE IF inp[pos] # CH.l
    THEN Fail("InvalidFormat", "List must start with 'l'", pos + 1)
    ELSE decode_list_loop(inp, pos + 1, <<>>)

\* HashMap::insert: a repeated key keeps the last value.
insert(dict, key, value) ==
    [k \in DOMAIN dict \cup {key} |-> IF k = key THEN value ELSE dict[k]]

\* The loop of decode_dict.
decode_dict_loop(inp, pos, dict) ==
    IF pos > Len(inp) THEN Fail("UnexpectedEOI", "", pos)
    ELSE IF inp[pos] = CH.e THEN Done(dict, pos + 1)
    ELSE LET key == decode_string(inp, pos)
         IN  IF ~key.ok THEN key
             ELSE LET value == decode_next(inp, key.pos)
                  IN  IF ~value.ok THEN value
                      ELSE decode_dict_loop(inp, value.pos,
                                            insert(dict, key.val, value.val))

decode_dict(inp, pos) ==
    IF pos > Len(inp) THEN Fail("UnexpectedEOI", "", pos)
    ELSE IF inp[pos] # CH.d
    THEN Fail("InvalidFormat", "Dictionary must start with 'd'", pos + 1)
    ELSE decode_dict_loop(inp, pos + 1, <<>>)

\* Result::map(BencodeValue::..), the variant given by its name
Map(r, variant) ==
    IF r.ok THEN Done([t |-> variant, v |-> r.val], r.pos) ELSE r

decode_next(inp, pos) ==
    IF pos > Len(inp) THEN Fail("UnexpectedEOI", "", pos)
    ELSE LET first_byte == inp[pos]
         IN  CASE IsDigit(first_byte) -> Map(decode_string(inp, pos), "String")
               [] first_byte = CH.i -> Map(decode_integer(inp, pos), "Integer")
               [] first_byte = CH.l -> Map(decode_list(inp, pos), "List")
               [] first_byte = CH.d -> Map(decode_dict(inp, pos), "Dict")
               [] OTHER -> Fail("InvalidFormat", "Unexpected character", pos)

-----------------------------------------------------------------------------
(* Bencode: the inputs explored *)

MaxListLen == 2
MaxDictKeys == 3
MaxSeed == 5
MaxDigits == 3

Seeds == 0..MaxSeed

\* "", "a", "b", "ab", "ba", byte 0xFF, "e", ":", "0", and an 11-byte string
\* (a two-digit length).
Strings ==
    {<<>>, <<97>>, <<98>>, <<97, 98>>, <<98, 97>>, <<255>>, <<101>>, <<58>>,
     <<48>>, <<99, 114, 101, 97, 116, 101, 100, 32, 98, 121, 58>>}

Keys == {<<>>, <<97>>, <<98>>, <<97, 98>>, <<98, 97>>, <<255>>}

I64Values ==
    {I64(FALSE, <<0>>), I64(FALSE, <<7>>), I64(TRUE, <<1>>), I64(TRUE, <<4, 2>>),
     I64(FALSE, <<1, 0, 0>>), I64(FALSE, I64_MAX_MAG), I64(TRUE, I64_MIN_MAG)}

Atoms == {BString(x) : x \in Strings} \cup {BInteger(n) : n \in I64Values}
FewAtoms == {BString(<<97>>), BInteger(I64(TRUE, <<4, 2>>))}

SeqsUpTo(S, n) == UNION {[1..k -> S] : k \in 0..n}
KeySets == {K \in SUBSET Keys : Cardinality(K) <= MaxDictKeys}

Lists1 == {BList(q) : q \in SeqsUpTo(FewAtoms, MaxListLen)}
Dicts1 == {BDict(m) : m \in UNION {[K -> FewAtoms] : K \in KeySets}}
Level1 == Atoms \cup Lists1 \cup Dicts1

\* One more level of nesting: a list or a dictionary holding a Level1 value.
Lists2 == {BList(<<x, BString(<<>>)>>) : x \in Lists1 \cup Dicts1}
Dicts2 ==
    {BDict([k \in {<<98>>, <<97, 98>>} |-> IF k = <<98>> THEN x ELSE BInteger(I64(FALSE, <<7>>))]) :
        x \in Lists1 \cup Dicts1}
Level2 == Lists2 \cup Dicts2

\* And a third: a dictionary in a list in a dictionary.
Level3 == {BDict([k \in {<<255>>} |-> x]) : x \in {y \in Lists2 : y.v[1].t = "Dict" /\ Cardinality(DOMAIN y.v[1].v) = 2}}

Values == Level1 \cup Level2 \cup Level3

\* The text between 'i' and 'e': every string of at most MaxDigits
\* characters over '-', '0', '1', '9', and the numbers around i64::MAX and
\* i64::MIN.
DigitChars == {CH.minus, CH.zero, 49, CH.nine}
Ascii(digits) == [k \in 1..Len(digits) |-> CH.zero + digits[k]]
NumStrs ==
    SeqsUpTo(DigitChars, MaxDigits)
    \cup {Ascii(I64_MAX_MAG), Ascii(I64_MIN_MAG),
          <<CH.minus>> \o Ascii(I64_MIN_MAG), <<CH.minus>> \o Ascii(I64_MAX_MAG),
          <<CH.minus>> \o Ascii(SetAt(I64_MIN_MAG, 19, 9)),
          Ascii(I64_MAX_MAG) \o <<CH.zero>>,
          <<CH.zero>> \o Ascii(I64_MAX_MAG),
          <<CH.minus, CH.zero>> \o Ascii(I64_MAX_MAG),
          <<CH.minus, 52, 50>>, <<52, 50>>,
          <<CH.plus, 53>>, <<49, 97>>, <<255>>, <<195, 169>>}

IntegerInputs == {<<CH.i>> \o n \o <<CH.e>> : n \in NumStrs}

\* The canonical bencoding of a value, as BEP 3 defines it: the entries of
\* a dictionary in ascending order of their keys.
RECURSIVE Canonical(_)
RECURSIVE CanonicalAll(_, _)
RECURSIVE CanonicalEntries(_, _, _)

CanonicalAll(list, k) ==
    IF k > Len(list) THEN <<>>
    ELSE Canonical(list[k]) \o CanonicalAll(list, k + 1)

CanonicalEntries(dict, asc, k) ==
    IF k > Len(asc) THEN <<>>
    ELSE fmt_usize(Len(asc[k])) \o <<CH.colon>> \o asc[k]
            \o Canonical(dict[asc[k]]) \o CanonicalEntries(dict, asc, k + 1)

Canonical(v) ==
    CASE v.t = "String" -> fmt_usize(Len(v.v)) \o <<CH.colon>> \o v.v
      [] v.t = "Integer" ->
            <<CH.i>> \o (IF v.v.neg THEN <<CH.minus>> ELSE <<>>) \o Ascii(v.v.mag)
                \o <<CH.e>>
      [] v.t = "List" -> <<CH.l>> \o CanonicalAll(v.v, 1) \o <<CH.e>>
      [] v.t = "Dict" ->
            <<CH.d>> \o CanonicalEntries(v.v, Ascending(DOMAIN v.v), 1) \o <<CH.e>>

CanonicalInputs == {Canonical(v) : v \in Values}

\* Well-formed bencode that is not canonical: keys out of order
\* (d1:bi1e1:ai2ee), a repeated key (d1:ai1e1:ai2ee), a padded length (01:a),
\* a negative number with leading zeros (i-01e), a signed length as a key
\* (d+1:ai1ee).
OtherInputs ==
    {<<100, 49, 58, 98, 105, 49, 101, 49, 58, 97, 105, 50, 101, 101>>,
     <<100, 49, 58, 97, 105, 49, 101, 49, 58, 97, 105, 50, 101, 101>>,
     <<48, 49, 58, 97>>,
     <<105, 45, 48, 49, 101>>,
     <<100, 43, 49, 58, 97, 105, 49, 101, 101>>}

\* Inputs of decode_string: a length text, then a ':' or nothing, then
\* data.  The length texts are the strings of at most two characters over
\* '0', '1', '2', '+', '-', 'a', the byte 0xFF, "10", and the decimal
\* numbers around isize::MAX and usize::MAX.
LengthTexts ==
    SeqsUpTo({CH.zero, 49, 50, CH.plus, CH.minus, 97}, 2)
    \cup {<<255>>, <<49, 255>>, <<48, 48, 50>>,
          Ascii(ISIZE_MAX_MAG), Ascii(SetAt(ISIZE_MAX_MAG, 19, 8)),
          Ascii(USIZE_MAX_MAG), Ascii(SetAt(USIZE_MAX_MAG, 20, 6))}

StringData ==
    {<<>>, <<97>>, <<97, 98>>, <<97, 98, 99>>, <<97, CH.colon, 98>>,
     <<99, 114, 101, 97, 116, 101, 100, 32, 98, 121, 58, 105>>}

\* Two encoded values one after the other, then nothing or a stray 'e'.
ConcatValues ==
    Atoms \cup Lists1 \cup {d \in Dicts1 : Cardinality(DOMAIN d.v) <= 1}
    \cup {z \in Level3 :
            LET inner == z.v[<<255>>].v[1].v
            IN  <<255>> \in DOMAIN inner
                /\ \A k \in DOMAIN inner : inner[k] = BString(<<97>>)}

ConcatTails == {<<>>, <<CH.e>>}

\* Dictionaries with a value that is not a byte string where a key has to
\* be: 'd', no entry or the entry 1:a -> i7e, then the value in the place of
\* the key, a value after it, 'e'.
NonStringKeys ==
    {BInteger(n) : n \in I64Values} \cup Lists1
    \cup {d \in Dicts1 : Cardinality(DOMAIN d.v) <= 1}

EntriesBefore == {<<>>, <<49, CH.colon, 97, CH.i, 55, CH.e>>}

BadKeyInput(before, key, value) ==
    <<CH.d>> \o before \o Canonical(key) \o Canonical(value) \o <<CH.e>>

StringInputs ==
    {t \o <<CH.colon>> \o d : t \in LengthTexts, d \in StringData}
    \cup {t \o d : t \in LengthTexts, d \in {<<>>, <<97>>}}

\* Inputs that end early: every proper prefix of a canonical input, the
\* empty input included.
TruncatedInputs ==
    UNION {{SubSeq(c, 1, n) : n \in 0..(Len(c) - 1)} : c \in CanonicalInputs}

\* A string, alone and in a list, whose length prefix is isize::MAX + 1
OverlongInputs ==
    {Ascii(SetAt(ISIZE_MAX_MAG, 19, 8)) \o <<CH.colon, 97>>,
     <<CH.l>> \o Ascii(SetAt(ISIZE_MAX_MAG, 19, 8)) \o <<CH.colon, 97, CH.e>>}

hsIdle ==
    /\ op = "none"
    /\ pc = "done"
    /\ expected = <<>>
    /\ local_id = <<>>
    /\ remote = <<>>
    /\ stalled = FALSE
    /\ clock = 0
    /\ events = <<>>
    /\ sent = <<>>
    /\ first = -1
    /\ result = Pending
    /\ wire = <<>>
    /\ checked = NotChecked
    /\ stream = "none"

NoResult == [ok |-> FALSE, val |-> NoValue, pos |-> 0, err |-> NoBErr]

BInit ==
    /\ hsIdle
    /\ tIdle
    /\ kIdle
    /\ \/ /\ bphase = "value"
          /\ bval \in Values
          /\ bseed \in Seeds
          /\ bbytes = <<>>
       \/ /\ bphase = "integer"
          /\ bval = NoValue
          /\ bseed = 0
          /\ bbytes \in IntegerInputs
       \/ /\ bphase = "bytes"
          /\ bval = NoValue
          /\ bseed \in Seeds
          /\ bbytes \in CanonicalInputs \cup OtherInputs
       \/ /\ bphase = "bytes"
          /\ bval \in NonStringKeys
          /\ bseed = 0
          /\ \E before \in EntriesBefore, value \in FewAtoms :
                bbytes = BadKeyInput(before, bval, value)
       \/ /\ bphase = "bytes"
          /\ bval = NoValue
          /\ bseed = 0
          /\ bbytes \in TruncatedInputs \cup OverlongInputs
       \/ /\ bphase = "concat"
          /\ \E x \in ConcatValues, y \in ConcatValues, tail \in ConcatTails :
                /\ bval = BList(<<x, y>>)
                /\ bbytes = Canonical(x) \o Canonical(y) \o tail
          /\ bseed = 0
       \/ /\ bphase = "string"
          /\ bval = NoValue
          /\ bseed = 0
          /\ bbytes \in StringInputs
    /\ bres = NoResult
    /\ bout = <<>>

-----------------------------------------------------------------------------
(* Bencode: the operations *)

\* encode(&mut buffer, &value) into an empty Vec<u8>
Encode ==
    /\ bphase = "value"
    /\ bout' = encode(bval, bseed)
    /\ bphase' = "encoded"
    /\ UNCHANGED <<bval, bseed, bbytes, bres>>
    /\ UNCHANGED <<hsVars, tVars, kVars>>

\* decode_next on the bytes just encoded
DecodeEncoded ==
    /\ bphase = "encoded"
    /\ bres' = decode_next(bout, 1)
    /\ bphase' = "roundtrip"
    /\ UNCHANGED <<bval, bseed, bbytes, bout>>
    /\ UNCHANGED <<hsVars, tVars, kVars>>

\* decode_integer on the input bytes
DecodeInteger ==
    /\ bphase = "integer"
    /\ bres' = decode_integer(bbytes, 1)
    /\ bphase' = "int_decoded"
    /\ UNCHANGED <<bval, bseed, bbytes, bout>>
    /\ UNCHANGED <<hsVars, tVars, kVars>>

\* decode_string on the input bytes
DecodeString ==
    /\ bphase = "string"
    /\ bres' = decode_string(bbytes, 1)
    /\ bphase' = "str_decoded"
    /\ UNCHANGED <<bval, bseed, bbytes, bout>>
    /\ UNCHANGED <<hsVars, tVars, kVars>>

\* decode_next on the input bytes
Decode ==
    /\ bphase = "bytes"
    /\ bres' = decode_next(bbytes, 1)
    /\ bphase' = "decoded"
    /\ UNCHANGED <<bval, bseed, bbytes, bout>>
    /\ UNCHANGED <<hsVars, tVars, kVars>>

\* decode_next on a reader holding two values: the first call
DecodeFirst ==
    /\ bphase = "concat"
    /\ bres' = decode_next(bbytes, 1)
    /\ bphase' = "first_decoded"
    /\ UNCHANGED <<bval, bseed, bbytes, bout>>
    /\ UNCHANGED <<hsVars, tVars, kVars>>

\* and the second call, on the same reader where the first left it
DecodeSecond ==
    /\ bphase = "first_decoded" /\ bres.ok
    /\ bres' = decode_next(bbytes, bres.pos)
    /\ bphase' = "second_decoded"
    /\ UNCHANGED <<bval, bseed, bbytes, bout>>
    /\ UNCHANGED <<hsVars, tVars, kVars>>

\* encode of the value just decoded (what calculate_info_hash does with the
\* info dictionary)
ReEncode ==
    /\ bphase = "decoded" /\ bres.ok
    /\ bout' = encode(bres.val, bseed)
    /\ bphase' = "reencoded"
    /\ UNCHANGED <<bval, bseed, bbytes, bres>>
    /\ UNCHANGED <<hsVars, tVars, kVars>>

BNext ==
    \/ Encode
    \/ DecodeEncoded
    \/ DecodeInteger
    \/ DecodeString
    \/ Decode
    \/ DecodeFirst
    \/ DecodeSecond
    \/ ReEncode

SpecBencode == BInit /\ [][BNext]_vars

-----------------------------------------------------------------------------
(* Bencode: claims *)

\* C7: decoding the bytes encode(v) produces succeeds, consumes all of
\* them and returns a value equal to v.
C7_RoundTrip ==
    bphase = "roundtrip" =>
        /\ bres.ok
        /\ bres.pos = Len(bout) + 1
        /\ bres.val = bval

C7_Witness ==
    /\ bphase = "roundtrip" /\ bres.ok
    /\ bval.t = "Dict" /\ <<98>> \in DOMAIN bval.v
    /\ bval.v[<<98>>].t = "Dict" /\ Cardinality(DOMAIN bval.v[<<98>>].v) = 3

\* C8: encode emits the entries of a dictionary in byte-lexicographic order
\* of the keys whatever the iteration order of the map, at every nesting
\* level, so that the bytes do not depend on the iteration order.
C8_CanonicalOrder ==
    bphase \in {"encoded", "roundtrip"} =>
        /\ bout = Canonical(bval)
        /\ \A seed \in Seeds : encode(bval, seed) = bout

C8_Witness ==
    /\ bphase = "encoded" /\ bval.t = "List" /\ Len(bval.v) = 2
    /\ bval.v[1].t = "Dict" /\ Cardinality(DOMAIN bval.v[1].v) = 3
    /\ keys_collect(bval.v[1].v, bseed) # Ascending(DOMAIN bval.v[1].v)

\* C9: for a well-formed canonical bencode string b, encode(decode(b)) is
\* byte-identical to b.
C9_ReEncodeExact ==
    /\ (bphase = "decoded" /\ bbytes \in CanonicalInputs) =>
        bres.ok /\ bres.pos = Len(bbytes) + 1
    /\ (bphase = "reencoded" /\ bbytes \in CanonicalInputs) => bout = bbytes

C9_Witness ==
    /\ bphase = "reencoded" /\ bbytes \in CanonicalInputs
    /\ bres.val.t = "Dict" /\ Cardinality(DOMAIN bres.val.v) = 3
    /\ bseed = 3

\* The text between 'i' and 'e' of the input.
NumStr == SubSeq(bbytes, 2, Len(bbytes) - 1)

\* An optional '-' followed by decimal digits, possibly none.
SignedDigits(n) ==
    \A k \in 1..Len(n) : IsDigit(n[k]) \/ (k = 1 /\ n[k] = CH.minus)

RECURSIVE StripZeros(_)
StripZeros(d) ==
    IF Len(d) > 1 /\ d[1] = 0 THEN StripZeros(Tail(d)) ELSE d

\* The number a signed digit string denotes.
Denoted(n) ==
    LET neg == n[1] = CH.minus
        mag == StripZeros([k \in 1..Len(n) - (IF neg THEN 1 ELSE 0) |->
                              n[k + (IF neg THEN 1 ELSE 0)] - CH.zero])
    IN  I64(neg /\ mag # <<0>>, mag)

FitsI64(n) ==
    IF n[1] = CH.minus THEN MagLE(Denoted(n).mag, I64_MIN_MAG)
    ELSE MagLE(Denoted(n).mag, I64_MAX_MAG)

RECURSIVE FirstColon(_, _)
FirstColon(b, k) ==
    IF k > Len(b) THEN 0
    ELSE IF b[k] = CH.colon THEN k
    ELSE FirstColon(b, k + 1)

\* The text before the first ':' and the number of bytes after it.
LengthText == SubSeq(bbytes, 1, FirstColon(bbytes, 1) - 1)
BytesAfterColon == Len(bbytes) - FirstColon(bbytes, 1)

\* A decimal number: one digit or more.  A '+' followed by digits is left
\* out of both cases of C11: it is a signed number.
DecimalNumber(t) == t # <<>> /\ \A k \in 1..Len(t) : IsDigit(t[k])
PlusNumber(t) == Len(t) > 1 /\ t[1] = CH.plus /\ DecimalNumber(Tail(t))

\* The length a decimal number declares, as a magnitude.
Declared(t) == StripZeros([k \in 1..Len(t) |-> t[k] - CH.zero])

\* C11: decode_string on <n>:<data> returns exactly the n bytes after the
\* colon; it fails with UnexpectedEOI when the input ends before a ':' or
\* before n bytes of data, and with InvalidStringLength when the text before
\* the ':' is not a decimal number; it never returns fewer than n bytes.
C11_StringBounds ==
    (bphase = "str_decoded" /\ ~PlusNumber(LengthText)) =>
        IF FirstColon(bbytes, 1) = 0
        THEN ~bres.ok /\ bres.err.kind = "UnexpectedEOI"
        ELSE IF ~DecimalNumber(LengthText)
        THEN ~bres.ok /\ bres.err.kind = "InvalidStringLength"
        ELSE IF MagExceeds(Declared(LengthText), BytesAfterColon)
        THEN ~bres.ok /\ bres.err.kind = "UnexpectedEOI"
        ELSE /\ bres.ok
             /\ Len(bres.val) = MagValue(Declared(LengthText), 1, 0)
             /\ bres.val = SubSeq(bbytes, FirstColon(bbytes, 1) + 1,
                                  FirstColon(bbytes, 1) + Len(bres.val))
             /\ bres.pos = FirstColon(bbytes, 1) + Len(bres.val) + 1

\* The bytes a successful decode has taken from the reader.
Taken == SubSeq(bbytes, 1, bres.pos - 1)

\* C12: a successful decode_next takes from the reader exactly the bytes of
\* the value it returns, the closing 'e' of a list or dictionary included,
\* and leaves the reader at the byte after them: the bytes taken decode to
\* the same value on their own, no shorter prefix of them does, and two
\* values encoded one after the other are returned in order by two calls.
C12_ExactConsumption ==
    /\ (bphase = "decoded" /\ bres.ok) =>
        /\ decode_next(Taken, 1) = Done(bres.val, Len(Taken) + 1)
        /\ \A n \in 0..(Len(Taken) - 1) : ~decode_next(SubSeq(Taken, 1, n), 1).ok
    /\ bphase = "first_decoded" =>
        /\ bres.ok
        /\ bres.val = bval.v[1]
        /\ Taken = Canonical(bval.v[1])
    /\ bphase = "second_decoded" =>
        /\ bres.ok
        /\ bres.val = bval.v[2]
        /\ Taken = Canonical(bval.v[1]) \o Canonical(bval.v[2])

C12_Witness ==
    /\ bphase = "second_decoded" /\ bres.ok
    /\ bval.v[1].t = "Dict" /\ bval.v[2].t = "List" /\ Len(bval.v[2].v) = 2
    /\ bres.pos = Len(bbytes)

\* C13: a dictionary whose key position holds an integer, a list or a
\* dictionary is rejected with InvalidFormat, and no dictionary is returned.
C13_KeysMustBeStrings ==
    (bphase = "decoded" /\ bval \in NonStringKeys) =>
        ~bres.ok /\ bres.err.kind = "InvalidFormat"

-----------------------------------------------------------------------------
(* Torrent: i64 arithmetic.  An i64 is the record I64(neg, mag) of the     *)
(* decoder; the operators S.. compute in the integers without bound, and   *)
(* the operators i64_.. are the arithmetic of the program: the exact       *)
(* result when it fits, and otherwise a panic in a build with overflow     *)
(* checks (debug) and the result modulo 2^64 in a build without (release). *)

\* 2^64
TWO_64 == <<1, 8, 4, 4, 6, 7, 4, 4, 0, 7, 3, 7, 0, 9, 5, 5, 1, 6, 1, 6>>

\* The digit of a magnitude k places from its end, 0 beyond its first digit.
DigitAt(a, k) == IF k < Len(a) THEN a[Len(a) - k] ELSE 0

RECURSIVE AddDigits(_, _, _, _)
AddDigits(a, b, k, carry) ==
    IF k >= Len(a) /\ k >= Len(b)
    THEN IF carry = 0 THEN <<>> ELSE <<carry>>
    ELSE LET t == DigitAt(a, k) + DigitAt(b, k) + carry
         IN  AddDigits(a, b, k + 1, t \div 10) \o <<t % 10>>

MagAdd(a, b) == AddDigits(a, b, 0, 0)

\* a - b for a >= b
RECURSIVE SubDigits(_, _, _, _)
SubDigits(a, b, k, borrow) ==
    IF k >= Len(a) THEN <<>>
    ELSE LET t == DigitAt(a, k) - DigitAt(b, k) - borrow
         IN  SubDigits(a, b, k + 1, IF t < 0 THEN 1 ELSE 0)
                \o <<IF t < 0 THEN t + 10 ELSE t>>

MagSub(a, b) == StripZeros(SubDigits(a, b, 0, 0))

\* n * a for a small natural number n
RECURSIVE MagTimes(_, _)
MagTimes(n, a) == IF n = 0 THEN <<0>> ELSE MagAdd(a, MagTimes(n - 1, a))

Zero == I64(FALSE, <<0>>)
RECURSIVE NatMag(_)
NatMag(n) == IF n < 10 THEN <<n>> ELSE NatMag(n \div 10) \o <<n % 10>>
Small(n) == I64(FALSE, NatMag(n))
SNeg(x) == I64(~x.neg /\ x.mag # <<0>>, x.mag)
SAdd(x, y) ==
    IF x.neg = y.neg THEN I64(x.neg, MagAdd(x.mag, y.mag))
    ELSE IF MagLE(x.mag, y.mag)
    THEN LET m == MagSub(y.mag, x.mag) IN I64(y.neg /\ m # <<0>>, m)
    ELSE I64(x.neg, MagSub(x.mag, y.mag))
SSub(x, y) == SAdd(x, SNeg(y))
STimes(n, x) == LET m == MagTimes(n, x.mag) IN I64(x.neg /\ m # <<0>>, m)
SLE(x, y) ==
    IF x.neg /\ ~y.neg THEN TRUE
    ELSE IF ~x.neg /\ y.neg THEN FALSE
    ELSE IF x.neg THEN MagLE(y.mag, x.mag)
    ELSE MagLE(x.mag, y.mag)
SLess(x, y) == x # y /\ SLE(x, y)

InI64(x) ==
    IF x.neg THEN MagLE(x.mag, I64_MIN_MAG) ELSE MagLE(x.mag, I64_MAX_MAG)

\* The value modulo 2^64, in the range of an i64.
RECURSIVE Wrap(_)
Wrap(x) ==
    IF InI64(x) THEN x
    ELSE IF x.neg THEN Wrap(SAdd(x, I64(FALSE, TWO_64)))
    ELSE Wrap(SSub(x, I64(FALSE, TWO_64)))

\* The outcome of an arithmetic expression of the program.
Value(x) == [panic |-> FALSE, v |-> x]
Panic == [panic |-> TRUE, v |-> Zero]

overflowing(build, x) ==
    IF InI64(x) THEN Value(x)
    ELSE IF build = "debug" THEN Panic
    ELSE Value(Wrap(x))

i64_add(build, x, y) == overflowing(build, SAdd(x, y))
i64_sub(build, x, y) == overflowing(build, SSub(x, y))
\* (n as i64) * x for a usize n
i64_mul(build, n, x) == overflowing(build, STimes(n, x))

-----------------------------------------------------------------------------
(* Torrent: the metadata parser *)

K_announce == <<97, 110, 110, 111, 117, 110, 99, 101>>    \* b"announce"
K_info == <<105, 110, 102, 111>>    \* b"info"
\* b"announce-list"
K_announce_list ==
    <<97, 110, 110, 111, 117, 110, 99, 101, 45, 108, 105, 115, 116>>
\* b"creation data"
K_creation_data ==
    <<99, 114, 101, 97, 116, 105, 111, 110, 32, 100, 97, 116, 97>>
K_comment == <<99, 111, 109, 109, 101, 110, 116>>    \* b"comment"
\* b"created by"
K_created_by ==
    <<99, 114, 101, 97, 116, 101, 100, 32, 98, 121>>
K_encoding == <<101, 110, 99, 111, 100, 105, 110, 103>>    \* b"encoding"
\* b"piece length"
K_piece_length ==
    <<112, 105, 101, 99, 101, 32, 108, 101, 110, 103, 116, 104>>
K_pieces == <<112, 105, 101, 99, 101, 115>>    \* b"pieces"
K_private == <<112, 114, 105, 118, 97, 116, 101>>    \* b"private"
K_name == <<110, 97, 109, 101>>    \* b"name"
K_length == <<108, 101, 110, 103, 116, 104>>    \* b"length"
K_files == <<102, 105, 108, 101, 115>>    \* b"files"
K_path == <<112, 97, 116, 104>>    \* b"path"

\* TorrentError
TErr(kind, detail) == [kind |-> kind, detail |-> detail]
NoTErr == TErr("none", "")

\* HashMap::get on the dictionary of a BencodeValue.  parse takes its
\* fields out with HashMap::remove, each key once: the value found is the
\* one get finds.
None == [some |-> FALSE, v |-> NoValue]
Some(x) == [some |-> TRUE, v |-> x]
get(dict, key) == IF key \in DOMAIN dict THEN Some(dict[key]) ELSE None

\* Sha1::digest, as a digest without collisions: the digest of a message is
\* a value that stands for that message and no other.
Sha1(buffer) == [sha1 |-> buffer]

\* parse_pieces
RECURSIVE chunks(_, _)
chunks(pieces_bytes, i) ==
    IF i >= Len(pieces_bytes) \div HASH_LEN THEN <<>>
    ELSE <<Slice(pieces_bytes, i * HASH_LEN, i * HASH_LEN + HASH_LEN)>>
            \o chunks(pieces_bytes, i + 1)

mut_parse_pieces_rounds_down(pieces_bytes) ==
    [ok |-> TRUE, hashes |-> chunks(pieces_bytes, 0), err |-> NoTErr]

parse_pieces(pieces_bytes) ==
    IF Len(pieces_bytes) % HASH_LEN # 0
    THEN [ok |-> FALSE, hashes |-> <<>>, err |-> TErr("InvalidPiecesHashLength", "")]
    ELSE [ok |-> TRUE, hashes |-> chunks(pieces_bytes, 0), err |-> NoTErr]

\* calculate_info_hash
mut_info_hash_in_map_order(info_dict, seed) ==
    Sha1(<<CH.d>> \o encode_entries(info_dict, keys_collect(info_dict, seed), 1, seed)
            \o <<CH.e>>)

calculate_info_hash(info_dict, seed) == Sha1(encode(BDict(info_dict), seed))

\* Result<T> of the parser's functions
TOk(x) == [ok |-> TRUE, v |-> x, err |-> NoTErr]
TFail(kind, detail) == [ok |-> FALSE, v |-> <<>>, err |-> TErr(kind, detail)]

\* parse_announce_list: the trackers of one tier, then the tiers
RECURSIVE parse_tier(_, _, _)
parse_tier(trackers, k, tier_vec) ==
    IF k > Len(trackers) THEN TOk(tier_vec)
    ELSE IF trackers[k].t # "String"
    THEN TFail("InvalidFormat", "Tracker URL not a string")
    ELSE IF ~IsUtf8(trackers[k].v, 1)
    THEN TFail("InvalidFormat", "Invalid tracker URL (not UTF-8)")
    ELSE parse_tier(trackers, k + 1, Append(tier_vec, trackers[k].v))

RECURSIVE parse_tiers(_, _, _)
parse_tiers(tiers, k, result_vec) ==
    IF k > Len(tiers) THEN TOk(result_vec)
    ELSE IF tiers[k].t # "List"
    THEN TFail("InvalidFormat", "Announce tier not a list")
    ELSE LET tier == parse_tier(tiers[k].v, 1, <<>>)
         IN  IF ~tier.ok THEN tier
             ELSE parse_tiers(tiers, k + 1, Append(result_vec, tier.v))

parse_announce_list(value) ==
    IF value.t # "List" THEN TFail("InvalidFormat", "Announce-list not a list")
    ELSE parse_tiers(value.v, 1, <<>>)

\* parse_info_dict, step 7d: the components of one path
RECURSIVE parse_path(_, _, _)
parse_path(path_list, k, path_vec) ==
    IF k > Len(path_list) THEN TOk(path_vec)
    ELSE IF path_list[k].t # "String"
    THEN TFail("InvalidFormat", "File path component not a string")
    ELSE IF ~IsUtf8(path_list[k].v, 1)
    THEN TFail("InvalidFormat", "Invalid file path (not UTF-8)")
    ELSE parse_path(path_list, k + 1, Append(path_vec, path_list[k].v))

\* parse_info_dict, steps 7a..7e: the entries of the files list
RECURSIVE parse_files(_, _, _)
parse_files(list, k, files_vec) ==
    IF k > Len(list) THEN TOk(files_vec)
    ELSE IF list[k].t # "Dict" THEN TFail("InvalidFormat", "File entry not a dict")
    ELSE LET file_dict == list[k].v
             length == get(file_dict, K_length)
             path == get(file_dict, K_path)
         IN  IF ~(length.some /\ length.v.t = "Integer")
             THEN TFail("MissingField", "file length")
             ELSE IF ~(path.some /\ path.v.t = "List")
             THEN TFail("MissingField", "file path")
             ELSE LET path_vec == parse_path(path.v.v, 1, <<>>)
                  IN  IF ~path_vec.ok THEN path_vec
                      ELSE parse_files(list, k + 1,
                               Append(files_vec,
                                      [length |-> length.v.v, path |-> path_vec.v]))

\* Option<i64>
NoLength == [some |-> FALSE, v |-> Zero]

\* !files.is_empty()
is_directory(files) == files # <<>>

\* A match arm Some(BencodeValue::Variant(_)) of dict.get(..)
mut_matches_any_variant(field, variant) == field.some

matches(field, variant) == field.some /\ field.v.t = variant

parse_info_dict(value) ==
    IF value.t # "Dict" THEN TFail("InvalidFormat", "Info is not a dictionary")
    ELSE LET dict == value.v
             piece_length == get(dict, K_piece_length)
             pieces_bytes == get(dict, K_pieces)
             private == get(dict, K_private)
             name == get(dict, K_name)
             length == get(dict, K_length)
             files_val == get(dict, K_files)
         IN  IF ~matches(piece_length, "Integer")
             THEN TFail("MissingField", "piece length")
             ELSE IF ~matches(pieces_bytes, "String")
             THEN TFail("MissingField", "pieces")
             ELSE IF ~matches(name, "String")
             THEN TFail("MissingField", "name")
             ELSE IF ~IsUtf8(name.v.v, 1)
             THEN TFail("InvalidFormat", "Invalid name (not UTF-8)")
             ELSE LET files == IF files_val.some /\ files_val.v.t = "List"
                               THEN parse_files(files_val.v.v, 1, <<>>)
                               ELSE TOk(<<>>)
                  IN  IF ~files.ok THEN files
                      ELSE TOk([piece_length |-> piece_length.v.v,
                                pieces |-> pieces_bytes.v.v,
                                private |-> private.some
                                            /\ private.v = BInteger(I64(FALSE, <<1>>)),
                                name |-> name.v.v,
                                length |-> IF length.some /\ length.v.t = "Integer"
                                           THEN [some |-> TRUE, v |-> length.v.v]
                                           ELSE NoLength,
                                files |-> files.v,
                                is_directory |-> is_directory(files.v)])

\* Option<SystemTime>, in seconds since UNIX_EPOCH
NoDate == [some |-> FALSE, secs |-> <<0>>]

\* String::from_utf8(s).unwrap_or_default() of an optional string field
permissive(field) ==
    IF field.some /\ field.v.t = "String" /\ IsUtf8(field.v.v, 1)
    THEN field.v.v
    ELSE <<>>

\* TorrentFile::parse.  The date is read from the key "creation data".
parse(data, seed) ==
    IF data.t # "Dict" THEN TFail("InvalidFormat", "Root is not a dictionary")
    ELSE LET dict == data.v
             announce == get(dict, K_announce)
             info_dict_value == get(dict, K_info)
             announce_list_value == get(dict, K_announce_list)
             data_value == get(dict, K_creation_data)
         IN  IF ~announce.some THEN TFail("MissingField", "announce")
             ELSE IF announce.v.t # "String"
             THEN TFail("MissingField", "announce(not string)")
             ELSE IF ~IsUtf8(announce.v.v, 1)
             THEN TFail("InvalidFormat", "Invalid announce Url (not UTF-8)")
             ELSE IF ~info_dict_value.some THEN TFail("MissingField", "info")
             ELSE IF info_dict_value.v.t # "Dict"
             THEN TFail("InvalidFormat", "info is not a dict")
             ELSE LET info == parse_info_dict(info_dict_value.v)
                      announce_list ==
                          IF announce_list_value.some
                          THEN parse_announce_list(announce_list_value.v)
                          ELSE TOk(<<>>)
                  IN  IF ~info.ok THEN info
                      ELSE IF ~announce_list.ok THEN announce_list
                      ELSE IF data_value.some /\ data_value.v.t # "Integer"
                      THEN TFail("InvalidFormat", "Creation date not an integer")
                      ELSE IF data_value.some /\ data_value.v.v.neg
                      THEN TFail("DateParseError", "")
                      ELSE LET pieces_hash == parse_pieces(info.v.pieces)
                           IN  IF ~pieces_hash.ok
                               THEN TFail(pieces_hash.err.kind, pieces_hash.err.detail)
                               ELSE TOk([announce |-> announce.v.v,
                                         announce_list |-> announce_list.v,
                                         creation_date |->
                                             IF data_value.some
                                             THEN [some |-> TRUE,
                                                   secs |-> data_value.v.v.mag]
                                             ELSE NoDate,
                                         comment |-> permissive(get(dict, K_comment)),
                                         created_by |-> permissive(get(dict, K_created_by)),
                                         encoding |-> permissive(get(dict, K_encoding)),
                                         info |-> info.v,
                                         info_hash |->
                                             calculate_info_hash(info_dict_value.v.v, seed),
                                         pieces_hash |-> pieces_hash.hashes])

-----------------------------------------------------------------------------
(* Torrent: the methods of TorrentFile.  Each returns Value(..) or Panic.  *)

\* self.info.files.iter().map(|f| f.length).sum()
RECURSIVE sum(_, _, _, _)
sum(build, files, k, acc) ==
    IF k > Len(files) THEN Value(acc)
    ELSE LET next == i64_add(build, acc, files[k].length)
         IN  IF next.panic THEN Panic ELSE sum(build, files, k + 1, next.v)

total_length(build, tf) ==
    IF ~tf.info.is_directory
    THEN Value(IF tf.info.length.some THEN tf.info.length.v ELSE Zero)
    ELSE sum(build, tf.info.files, 1, Zero)

num_pieces(tf) == Len(tf.pieces_hash)

\* TorrentFile::piece_size
mut_piece_size_all_full(build, tf, index) ==
    IF index >= num_pieces(tf) THEN Value(Zero) ELSE Value(tf.info.piece_length)

piece_size(build, tf, index) ==
    IF index >= num_pieces(tf) THEN Value(Zero)
    ELSE IF index < num_pieces(tf) - 1 THEN Value(tf.info.piece_length)
    ELSE LET total == total_length(build, tf)
             full_pieces_length ==
                 i64_mul(build, num_pieces(tf) - 1, tf.info.piece_length)
         IN  IF total.panic \/ full_pieces_length.panic THEN Panic
             ELSE LET last_piece_size == i64_sub(build, total.v, full_pieces_length.v)
                  IN  IF last_piece_size.panic THEN Panic
                      ELSE IF last_piece_size.v = Zero /\ num_pieces(tf) > 0
                      THEN Value(tf.info.piece_length)
                      ELSE last_piece_size

\* PathBuf::join (Unix): an absolute component replaces the path; otherwise
\* it is appended, after a '/' unless the path is empty or ends with one.
SEP == 47
join(path, component) ==
    IF component # <<>> /\ component[1] = SEP THEN component
    ELSE IF path = <<>> \/ path[Len(path)] = SEP THEN path \o component
    ELSE path \o <<SEP>> \o component

RECURSIVE full_path(_, _, _)
full_path(path, components, k) ==
    IF k > Len(components) THEN path
    ELSE full_path(join(path, components[k]), components, k + 1)

\* file_end > piece_start && file_start < piece_end
overlaps(file_start, file_end, piece_start, piece_end) ==
    SLess(piece_start, file_end) /\ SLess(file_start, piece_end)

\* The loop of file_paths_for_piece over self.info.files.
RECURSIVE files_loop(_, _, _, _, _, _, _)
files_loop(build, tf, k, current_data_position, piece_start, piece_end, result_paths) ==
    IF k > Len(tf.info.files) THEN Value(result_paths)
    ELSE LET file_info == tf.info.files[k]
             file_start == current_data_position
             file_end == i64_add(build, file_start, file_info.length)
         IN  IF file_end.panic THEN [panic |-> TRUE, v |-> <<>>]
             ELSE files_loop(build, tf, k + 1, file_end.v, piece_start, piece_end,
                      IF overlaps(file_start, file_end.v, piece_start, piece_end)
                      THEN Append(result_paths,
                                  full_path(tf.info.name, file_info.path, 1))
                      ELSE result_paths)

file_paths_for_piece(build, tf, index) ==
    IF index >= num_pieces(tf) THEN Value(<<>>)
    ELSE LET piece_start == i64_mul(build, index, tf.info.piece_length)
             size == piece_size(build, tf, index)
         IN  IF piece_start.panic \/ size.panic THEN [panic |-> TRUE, v |-> <<>>]
             ELSE LET piece_end == i64_add(build, piece_start.v, size.v)
                  IN  IF piece_end.panic THEN [panic |-> TRUE, v |-> <<>>]
                      ELSE IF ~tf.info.is_directory THEN Value(<<tf.info.name>>)
                      ELSE files_loop(build, tf, 1, Zero, piece_start.v,
                                      piece_end.v, <<>>)

-----------------------------------------------------------------------------
(* Torrent: the inputs explored *)

MaxPieces == 5
MaxIndex == MaxPieces + 1

Builds == {"debug", "release"}

\* The dictionary holding the given <<key, value>> pairs, without the pairs
\* whose value is NoValue (a key that is absent).
DictOf(pairs) ==
    LET present == {q \in pairs : q[2] # NoValue}
    IN  [k \in {q[1] : q \in present} |-> (CHOOSE q \in present : q[1] = k)[2]]

\* n piece hashes: twenty bytes 1, twenty bytes 2, ..
RECURSIVE Pieces(_)
Pieces(n) == IF n = 0 THEN <<>> ELSE Pieces(n - 1) \o Repeat(n, HASH_LEN)

IntOf(n) == BInteger(Small(n))
NegOf(n) == BInteger(I64(TRUE, NatMag(n)))
\* 2^62 and i64::MAX
Huge == BInteger(I64(FALSE, <<4, 6, 1, 1, 6, 8, 6, 0, 1, 8, 4, 2, 7, 3, 8, 7, 9, 0, 4>>))
Most == BInteger(I64(FALSE, I64_MAX_MAG))

PieceLengthFields ==
    {NoValue, BString(<<52>>), NegOf(1), IntOf(0), IntOf(4), IntOf(1024), IntOf(262144), Huge}

PiecesFields ==
    {BString(Pieces(n)) : n \in 0..MaxPieces}
    \cup {BString(Repeat(7, 19)), BString(Repeat(7, 30)), NoValue}

LengthFields == {NoValue, IntOf(0), IntOf(10), IntOf(12), IntOf(1048576), NegOf(5), Most}

FileEntry(length, path) ==
    BDict(DictOf({<<K_length, length>>,
                  <<K_path, BList([k \in 1..Len(path) |-> BString(path[k])])>>}))

\* Paths: a, d/b, z, y, b, and the absolute component /x.
GoodFiles ==
    {<<FileEntry(IntOf(3), <<<<97>>>>)>>,
     <<FileEntry(IntOf(100), <<<<97>>>>), FileEntry(IntOf(5000), <<<<100>>, <<98>>>>)>>,
     <<FileEntry(IntOf(0), <<<<122>>>>), FileEntry(IntOf(4), <<<<97>>>>),
       FileEntry(IntOf(0), <<<<121>>>>), FileEntry(IntOf(8), <<<<SEP, 120>>>>)>>,
     <<FileEntry(NegOf(2), <<<<97>>>>), FileEntry(IntOf(6), <<<<98>>>>)>>,
     <<FileEntry(Most, <<<<97>>>>), FileEntry(IntOf(1), <<<<98>>>>)>>}

\* An entry that is no dictionary, one without length, one whose path is a
\* string, one with a path component that is not UTF-8, one with a
\* component that is an integer.
BadFiles ==
    {<<IntOf(1)>>,
     <<BDict(DictOf({<<K_path, BList(<<BString(<<97>>)>>)>>}))>>,
     <<BDict(DictOf({<<K_length, IntOf(3)>>, <<K_path, BString(<<97>>)>>}))>>,
     <<FileEntry(IntOf(3), <<<<97>>>>), FileEntry(IntOf(3), <<<<255>>>>)>>,
     <<BDict(DictOf({<<K_length, IntOf(3)>>, <<K_path, BList(<<IntOf(1)>>)>>}))>>}

FilesFields == {NoValue, BList(<<>>)} \cup {BList(f) : f \in GoodFiles \cup BadFiles}

\* The name is "t".
InfoValue(piece_length, pieces, length, files) ==
    BDict(DictOf({<<K_piece_length, piece_length>>, <<K_pieces, pieces>>,
                  <<K_name, BString(<<116>>)>>, <<K_length, length>>,
                  <<K_files, files>>}))

InfoValues ==
    {InfoValue(pl, ps, ln, fs) :
        pl \in PieceLengthFields, ps \in PiecesFields,
        ln \in LengthFields, fs \in FilesFields}

\* Info dictionaries with more in them: no name, a name that is not UTF-8,
\* the private flag, a key of no meaning to the parser; and values that are
\* no dictionary.
OtherInfoValues ==
    {BDict(DictOf({<<K_piece_length, IntOf(4)>>, <<K_pieces, BString(Pieces(2))>>,
                   <<K_length, IntOf(8)>>})),
     BDict(DictOf({<<K_piece_length, IntOf(4)>>, <<K_pieces, BString(Pieces(2))>>,
                   <<K_name, BString(<<255>>)>>, <<K_length, IntOf(8)>>})),
     BDict(DictOf({<<K_piece_length, IntOf(4)>>, <<K_pieces, BString(Pieces(2))>>,
                   <<K_name, BString(<<116>>)>>, <<K_length, IntOf(8)>>,
                   <<K_private, IntOf(1)>>})),
     BDict(DictOf({<<K_piece_length, IntOf(4)>>, <<K_pieces, BString(Pieces(2))>>,
                   <<K_name, BString(<<116>>)>>, <<K_length, IntOf(7)>>,
                   <<K_private, IntOf(0)>>, <<<<120>>, BList(<<IntOf(1)>>)>>})),
     BList(<<>>), IntOf(1), NoValue}

\* b"creation date", the key of BEP 3
K_creation_date ==
    <<99, 114, 101, 97, 116, 105, 111, 110, 32, 100, 97, 116, 101>>

\* What a .torrent holds outside `info`: the usual announce URL "u", and the
\* variations of it.
UsualOuter == {<<K_announce, BString(<<117>>)>>}

Outers ==
    {UsualOuter,
     {},
     {<<K_announce, IntOf(1)>>},
     {<<K_announce, BString(<<255>>)>>},
     {<<K_announce, BString(<<118, 119>>)>>},
     UsualOuter \cup {<<K_announce_list,
                        BList(<<BList(<<BString(<<117>>)>>), BList(<<>>)>>)>>},
     UsualOuter \cup {<<K_announce_list, BList(<<IntOf(1)>>)>>},
     UsualOuter \cup {<<K_announce_list, BList(<<BList(<<BString(<<255>>)>>)>>)>>},
     UsualOuter \cup {<<K_creation_data, IntOf(5)>>},
     UsualOuter \cup {<<K_creation_data, NegOf(1)>>},
     UsualOuter \cup {<<K_creation_data, BString(<<53>>)>>},
     UsualOuter \cup {<<K_creation_date, IntOf(5)>>},
     UsualOuter \cup {<<K_creation_date, NegOf(1)>>},
     UsualOuter \cup {<<K_comment, BString(<<99>>)>>, <<K_created_by, BString(<<255>>)>>,
                      <<K_encoding, IntOf(1)>>}}

RootValue(outer, info) == BDict(DictOf(outer \cup {<<K_info, info>>}))

FewInfoValues ==
    OtherInfoValues
    \cup {InfoValue(IntOf(4), BString(Pieces(n)), IntOf(10), fs) :
            n \in {3}, fs \in {NoValue, BList(<<FileEntry(IntOf(3), <<<<97>>>>)>>)}}
    \cup {InfoValue(IntOf(4), BString(Repeat(7, 30)), IntOf(10), NoValue)}

TorrentInputs ==
    {RootValue(UsualOuter, info) : info \in InfoValues}
    \cup {RootValue(outer, info) : outer \in Outers, info \in FewInfoValues}
    \cup {BList(<<>>), IntOf(1)}

\* Files: "d8:announce1:u4:info" <info> "e", the info value written in
\* several ways.  InfoText writes a dictionary with its entries in the order
\* given, each <<key text, value>>; the key text includes its length prefix.
RECURSIVE EntriesText(_, _)
EntriesText(entries, k) ==
    IF k > Len(entries) THEN <<>>
    ELSE entries[k][1] \o Canonical(entries[k][2]) \o EntriesText(entries, k + 1)

InfoText(entries) == <<CH.d>> \o EntriesText(entries, 1) \o <<CH.e>>

KeyText(key) == fmt_usize(Len(key)) \o <<CH.colon>> \o key

E_length(n) == <<KeyText(K_length), IntOf(n)>>
E_name == <<KeyText(K_name), BString(<<116>>)>>
E_piece_length == <<KeyText(K_piece_length), IntOf(4)>>
E_pieces == <<KeyText(K_pieces), BString(Pieces(3))>>

\* In order: the canonical text; another length; the keys out of order; the
\* key `length` twice; the key `name` with its length written "04"; a key
\* the parser does not know; no `name`; and an unterminated dictionary.
InfoTexts ==
    {InfoText(<<E_length(10), E_name, E_piece_length, E_pieces>>),
     InfoText(<<E_length(12), E_name, E_piece_length, E_pieces>>),
     InfoText(<<E_name, E_length(10), E_pieces, E_piece_length>>),
     InfoText(<<E_length(9), E_length(10), E_name, E_piece_length, E_pieces>>),
     InfoText(<<E_length(10), <<<<48>> \o KeyText(K_name), BString(<<116>>)>>,
                E_piece_length, E_pieces>>),
     InfoText(<<E_length(10), E_name, E_piece_length, E_pieces,
                <<KeyText(<<120>>), IntOf(1)>>>>),
     InfoText(<<E_length(10), E_piece_length, E_pieces>>),
     <<CH.d>> \o KeyText(K_name)}

TorrentFiles ==
    {[head |-> <<CH.d>> \o KeyText(K_announce) \o Canonical(BString(<<117>>))
                  \o comment \o KeyText(K_info),
      info |-> text,
      tail |-> <<CH.e>>] :
        text \in InfoTexts,
        comment \in {<<>>, KeyText(K_comment) \o Canonical(BString(<<99>>))}}

NoCall == [fn |-> "none", index |-> 0, ret |-> Value(Zero)]

TInit ==
    /\ hsIdle
    /\ bIdle
    /\ kIdle
    /\ tbuild \in Builds
    /\ tseed \in {0, MaxSeed}
    /\ tres = TFail("none", "")
    /\ tcall = NoCall
    /\ \/ /\ tphase = "input"
          /\ traw = NoRaw
          /\ tdata \in TorrentInputs
       \/ /\ tphase = "file"
          /\ traw \in TorrentFiles
          /\ tdata = NoValue

-----------------------------------------------------------------------------
(* Torrent: the operations *)

\* The bytes of the file
FileBytes(raw) == raw.head \o raw.info \o raw.tail

\* The decoder run on the bytes of a .torrent file: the value for
\* TorrentFile::parse, or a BencodeError and nothing to parse.
DecodeFile ==
    /\ tphase = "file"
    /\ LET decoded == decode_next(FileBytes(traw), 1)
       IN  IF decoded.ok
           THEN tdata' = decoded.val /\ tphase' = "input"
           ELSE tdata' = NoValue /\ tphase' = "undecodable"
    /\ UNCHANGED <<traw, tbuild, tseed, tres, tcall>>
    /\ UNCHANGED <<hsVars, bVars, kVars>>

\* TorrentFile::parse(data)
Parse ==
    /\ tphase = "input"
    /\ tres' = parse(tdata, tseed)
    /\ tphase' = "parsed"
    /\ UNCHANGED <<traw, tbuild, tdata, tseed, tcall>>
    /\ UNCHANGED <<hsVars, bVars, kVars>>

\* One call of a method on the TorrentFile that parse returned.
Called(fn, index, ret) ==
    /\ tphase = "parsed" /\ tres.ok
    /\ tcall' = [fn |-> fn, index |-> index, ret |-> ret]
    /\ tphase' = "called"
    /\ UNCHANGED <<traw, tbuild, tdata, tseed, tres>>
    /\ UNCHANGED <<hsVars, bVars, kVars>>

TotalLength == Called("total_length", 0, total_length(tbuild, tres.v))

NumPieces == Called("num_pieces", 0, Value(Small(num_pieces(tres.v))))

PieceSize ==
    \E index \in 0..MaxIndex :
        Called("piece_size", index, piece_size(tbuild, tres.v, index))

FilePathsForPiece ==
    \E index \in 0..MaxIndex :
        Called("file_paths_for_piece", index,
               file_paths_for_piece(tbuild, tres.v, index))

TNext ==
    \/ DecodeFile
    \/ Parse
    \/ TotalLength
    \/ NumPieces
    \/ PieceSize
    \/ FilePathsForPiece

SpecTorrent == TInit /\ [][TNext]_vars

-----------------------------------------------------------------------------
(* Tracker: the Client, its peer id and the announce URL                   *)

\* b"-RT0001-"
PREFIX == <<45, 82, 84, 48, 48, 48, 49, 45>>
PEER_ID_LEN == 20

\* generate_peer_id; `random` is what rng.fill writes to peer_id[8..]
generate_peer_id(random) ==
    [k \in 1..PEER_ID_LEN |->
        IF k <= Len(PREFIX) THEN PREFIX[k] ELSE random[k - Len(PREFIX)]]

\* Client::new(port)
Client_new(port, random) ==
    [made |-> TRUE, peer_id |-> generate_peer_id(random), port |-> port]

AlphaNum == (97..122) \cup (65..90) \cup (48..57)

\* {:02X} of a byte
Hex(n) == IF n < 10 THEN 48 + n ELSE 55 + n
PercentXX(byte) == <<37, Hex(byte \div 16), Hex(byte % 16)>>

\* url_encode: a-z A-Z 0-9 - . _ ~ as they are, the rest as %XX
RECURSIVE url_encode_loop(_, _)
url_encode_loop(bytes, k) ==
    IF k > Len(bytes) THEN <<>>
    ELSE (IF bytes[k] \in AlphaNum \cup {45, 46, 95, 126}
          THEN <<bytes[k]>>
          ELSE PercentXX(bytes[k])) \o url_encode_loop(bytes, k + 1)

url_encode(bytes) == url_encode_loop(bytes, 1)

\* What query_pairs_mut().extend_pairs does to every name and value it is
\* given (application/x-www-form-urlencoded): * - . _ and the alphanumerics
\* as they are, the space as +, the rest, '%' and '~' included, as %XX.
RECURSIVE byte_serialize(_, _)
byte_serialize(text, k) ==
    IF k > Len(text) THEN <<>>
    ELSE (IF text[k] \in AlphaNum \cup {42, 45, 46, 95} THEN <<text[k]>>
          ELSE IF text[k] = 32 THEN <<43>>
          ELSE PercentXX(text[k])) \o byte_serialize(text, k + 1)

\* extend_pairs: "&" before a pair unless the query is empty, then
\* name "=" value
RECURSIVE extend_pairs(_, _, _)
extend_pairs(query, params, k) ==
    IF k > Len(params) THEN query
    ELSE extend_pairs(
             query \o (IF query = <<>> THEN <<>> ELSE <<38>>)
                   \o byte_serialize(params[k][1], 1) \o <<61>>
                   \o byte_serialize(params[k][2], 1),
             params, k + 1)

\* url::Url::parse of the announce text: an absolute http URL, split at its
\* first '?'; a text that has no "http://" in front is a relative URL
\* without a base, an error.
HTTP == <<104, 116, 116, 112, 58, 47, 47>>

RECURSIVE IndexOf(_, _, _)
IndexOf(text, byte, k) ==
    IF k > Len(text) THEN 0
    ELSE IF text[k] = byte THEN k
    ELSE IndexOf(text, byte, k + 1)

Url_parse(text) ==
    IF Len(text) <= Len(HTTP) \/ SubSeq(text, 1, Len(HTTP)) # HTTP
    THEN [ok |-> FALSE, base |-> <<>>, query |-> <<>>]
    ELSE LET q == IndexOf(text, 63, 1)
         IN  IF q = 0 THEN [ok |-> TRUE, base |-> text, query |-> <<>>]
             ELSE [ok |-> TRUE, base |-> SubSeq(text, 1, q - 1),
                   query |-> SubSeq(text, q + 1, Len(text))]

\* The names of the query parameters
P_info_hash == <<105, 110, 102, 111, 95, 104, 97, 115, 104>>
P_peer_id == <<112, 101, 101, 114, 95, 105, 100>>
P_port == <<112, 111, 114, 116>>
P_uploaded == <<117, 112, 108, 111, 97, 100, 101, 100>>
P_downloaded == <<100, 111, 119, 110, 108, 111, 97, 100, 101, 100>>
P_left == <<108, 101, 102, 116>>
P_compact == <<99, 111, 109, 112, 97, 99, 116>>

\* The AnnounceRequest with its two 20-byte fields filled from the torrent
mut_request_peer_id_from_torrent(self, torrent, left) ==
    [info_hash |-> torrent.info_hash,
     peer_id |-> torrent.info_hash,
     port |-> self.port,
     uploaded |-> Zero,
     downloaded |-> Zero,
     compact |-> TRUE,
     left |-> left]

\* The AnnounceRequest that announce builds
AnnounceRequest(self, torrent, left) ==
    [info_hash |-> torrent.info_hash,
     peer_id |-> self.peer_id,
     port |-> self.port,
     uploaded |-> Zero,
     downloaded |-> Zero,
     compact |-> TRUE,
     left |-> left]

\* The query parameters of a request, in the order of the array `params`
params_of(request) ==
    <<<<P_info_hash, url_encode(request.info_hash)>>,
      <<P_peer_id, url_encode(request.peer_id)>>,
      <<P_port, fmt_usize(request.port)>>,
      <<P_uploaded, fmt_i64(request.uploaded)>>,
      <<P_downloaded, fmt_i64(request.downloaded)>>,
      <<P_left, fmt_i64(request.left)>>,
      <<P_compact, fmt_usize(IF request.compact THEN 1 ELSE 0)>>>>

-----------------------------------------------------------------------------
(* Tracker: parse_announce_response.  TrackerResponse, Peers and PeerDict  *)
(* derive Deserialize, so serde_bencode::from_bytes hands every bencode    *)
(* value to the visitor of the Rust type asked for: an integer to          *)
(* visit_i64, a byte string to visit_bytes, a list to visit_seq, a         *)
(* dictionary to visit_map.  Vec<u8> is deserialized as a sequence of u8   *)
(* (there is no serde_bytes attribute on Peers::Compact), an untagged enum *)
(* takes the first variant that accepts the value, and a struct is         *)
(* accepted from a map or from the sequence of its fields.                 *)

K_interval == <<105, 110, 116, 101, 114, 118, 97, 108>>
K_peers == <<112, 101, 101, 114, 115>>
K_ip == <<105, 112>>
K_port == <<112, 111, 114, 116>>

\* u8::MAX and u16::MAX, in decimal digits
U8_MAX_MAG == <<2, 5, 5>>
U16_MAX_MAG == <<6, 5, 5, 3, 5>>

\* An unsigned integer type from a bencode value: an integer in its range
de_unsigned(value, max) ==
    value.t = "Integer" /\ ~value.v.neg /\ MagLE(value.v.mag, max)

\* Vec<u8> from a bencode value: a list of integers 0..255
de_Compact(value) ==
    IF value.t = "List" /\ \A k \in 1..Len(value.v) : de_unsigned(value.v[k], U8_MAX_MAG)
    THEN [ok |-> TRUE,
          bytes |-> [k \in 1..Len(value.v) |-> MagValue(value.v[k].v.mag, 1, 0)]]
    ELSE [ok |-> FALSE, bytes |-> <<>>]

\* String from a bencode value: a byte string that is UTF-8
de_String(value) == value.t = "String" /\ IsUtf8(value.v, 1)

\* struct PeerDict { ip: String, port: u16 }
de_PeerDict(value) ==
    CASE value.t = "Dict" ->
            LET ip == get(value.v, K_ip)
                port == get(value.v, K_port)
            IN  IF ip.some /\ port.some /\ de_String(ip.v)
                   /\ de_unsigned(port.v, U16_MAX_MAG)
                THEN [ok |-> TRUE, ip |-> ip.v.v,
                      port |-> MagValue(port.v.v.mag, 1, 0)]
                ELSE [ok |-> FALSE, ip |-> <<>>, port |-> 0]
      [] value.t = "List" ->
            IF Len(value.v) = 2 /\ de_String(value.v[1])
               /\ de_unsigned(value.v[2], U16_MAX_MAG)
            THEN [ok |-> TRUE, ip |-> value.v[1].v,
                  port |-> MagValue(value.v[2].v.mag, 1, 0)]
            ELSE [ok |-> FALSE, ip |-> <<>>, port |-> 0]
      [] OTHER -> [ok |-> FALSE, ip |-> <<>>, port |-> 0]

\* Vec<PeerDict>
de_NonCompact(value) ==
    IF value.t = "List" /\ \A k \in 1..Len(value.v) : de_PeerDict(value.v[k]).ok
    THEN [ok |-> TRUE, dicts |-> [k \in 1..Len(value.v) |-> de_PeerDict(value.v[k])]]
    ELSE [ok |-> FALSE, dicts |-> <<>>]

\* #[serde(untagged)] enum Peers: Compact is tried first, then NonCompact.
NoPeers == [ok |-> FALSE, variant |-> "none", bytes |-> <<>>, dicts |-> <<>>]
Compact(bytes) == [ok |-> TRUE, variant |-> "Compact", bytes |-> bytes, dicts |-> <<>>]
NonCompact(dicts) ==
    [ok |-> TRUE, variant |-> "NonCompact", bytes |-> <<>>, dicts |-> dicts]

de_Peers(value) ==
    IF de_Compact(value).ok THEN Compact(de_Compact(value).bytes)
    ELSE IF de_NonCompact(value).ok THEN NonCompact(de_NonCompact(value).dicts)
    ELSE NoPeers

\* struct TrackerResponse, both fields #[serde(default)]
NoTrackerResponse == [ok |-> FALSE, interval |-> Zero, peers |-> NoPeers]

TrackerResponse(interval, peers) ==
    IF (interval.some /\ interval.v.t # "Integer") \/ (peers.some /\ ~de_Peers(peers.v).ok)
    THEN NoTrackerResponse
    ELSE [ok |-> TRUE,
          interval |-> IF interval.some THEN interval.v.v ELSE Zero,
          peers |-> IF peers.some THEN de_Peers(peers.v) ELSE Compact(<<>>)]

de_TrackerResponse(value) ==
    CASE value.t = "Dict" ->
            TrackerResponse(get(value.v, K_interval), get(value.v, K_peers))
      [] value.t = "List" /\ Len(value.v) <= 2 ->
            TrackerResponse(IF Len(value.v) >= 1 THEN Some(value.v[1]) ELSE None,
                            IF Len(value.v) >= 2 THEN Some(value.v[2]) ELSE None)
      [] OTHER -> NoTrackerResponse

\* serde_bencode::from_bytes: the bencode value at the front of the bytes,
\* deserialized.  On the bodies explored serde_bencode's parser and the
\* decoder of this crate read the same value.
from_bytes(bytes) ==
    LET parsed == decode_next(bytes, 1)
    IN  IF parsed.ok THEN de_TrackerResponse(parsed.val) ELSE NoTrackerResponse

\* str::parse::<IpAddr>: four decimal numbers 0..255 without leading zeros,
\* separated by dots, are an IPv4 address; of the IPv6 literals only "::1"
\* is among the texts explored.
RECURSIVE Split(_, _, _, _)
Split(text, sep, k, part) ==
    IF k > Len(text) THEN <<part>>
    ELSE IF text[k] = sep THEN <<part>> \o Split(text, sep, k + 1, <<>>)
    ELSE Split(text, sep, k + 1, Append(part, text[k]))

IsOctet(part) ==
    /\ Len(part) \in 1..3
    /\ \A k \in 1..Len(part) : IsDigit(part[k])
    /\ Len(part) > 1 => part[1] # CH.zero
    /\ MagLE([k \in 1..Len(part) |-> part[k] - CH.zero], U8_MAX_MAG)

V4(a, b, c, d) == [ok |-> TRUE, family |-> "V4", addr |-> <<a, b, c, d>>]
V6_LOOPBACK == [ok |-> TRUE, family |-> "V6", addr |-> <<0, 0, 0, 0, 0, 0, 0, 1>>]
NoIp == [ok |-> FALSE, family |-> "none", addr |-> <<>>]

parse_IpAddr(text) ==
    LET parts == Split(text, 46, 1, <<>>)
        octet(k) == MagValue([j \in 1..Len(parts[k]) |-> parts[k][j] - CH.zero], 1, 0)
    IN  IF Len(parts) = 4 /\ \A k \in 1..4 : IsOctet(parts[k])
        THEN V4(octet(1), octet(2), octet(3), octet(4))
        ELSE IF text = <<58, 58, 49>> THEN V6_LOOPBACK
        ELSE NoIp

Peer(ip, port) == [ip |-> [family |-> ip.family, addr |-> ip.addr], port |-> port]

\* bytes.chunks_exact(6).map(..).collect()
RECURSIVE compact_peers(_, _)
compact_peers(bytes, k) ==
    IF 6 * k + 6 > Len(bytes) THEN <<>>
    ELSE LET chunk == SubSeq(bytes, 6 * k + 1, 6 * k + 6)
         IN  <<Peer(V4(chunk[1], chunk[2], chunk[3], chunk[4]),
                    256 * chunk[5] + chunk[6])>>
                 \o compact_peers(bytes, k + 1)

\* dicts.into_iter().filter_map(..).collect()
RECURSIVE non_compact_peers(_, _)
non_compact_peers(dicts, k) ==
    IF k > Len(dicts) THEN <<>>
    ELSE (IF parse_IpAddr(dicts[k].ip).ok
          THEN <<Peer(parse_IpAddr(dicts[k].ip), dicts[k].port)>>
          ELSE <<>>) \o non_compact_peers(dicts, k + 1)

NoAnswer == [ok |-> FALSE, v |-> <<>>, err |-> "none"]
KOk(x) == [ok |-> TRUE, v |-> x, err |-> "none"]
KErr(kind) == [ok |-> FALSE, v |-> <<>>, err |-> kind]

parse_announce_response(bytes) ==
    LET tracker_response == from_bytes(bytes)
    IN  IF ~tracker_response.ok THEN KErr("BencodeDe")
        ELSE KOk([interval |-> tracker_response.interval,
                  peers |-> IF tracker_response.peers.variant = "Compact"
                            THEN compact_peers(tracker_response.peers.bytes, 0)
                            ELSE non_compact_peers(tracker_response.peers.dicts, 1)])

\* Client::announce up to the GET: the request that goes out, or the error
\* that ends the call before one does.
NotSent == [some |-> FALSE, request |-> <<>>, url |-> <<>>]

announce_send(self, torrent, build) ==
    LET left == total_length(build, torrent)
    IN  IF left.panic THEN [sent |-> NotSent, ret |-> KErr("panic")]
        ELSE LET request == AnnounceRequest(self, torrent, left.v)
                 url == Url_parse(torrent.announce)
             IN  IF ~url.ok THEN [sent |-> NotSent, ret |-> KErr("UrlParse")]
                 ELSE [sent |-> [some |-> TRUE, request |-> request,
                                 url |-> [base |-> url.base,
                                          query |-> extend_pairs(url.query,
                                                        params_of(request), 1)]],
                       ret |-> KOk(<<>>)]

\* Client::announce from the GET on.  `http` is what reqwest::get and
\* response.bytes() give: an error, or the body of the response.
announce_receive(http) ==
    IF ~http.ok THEN KErr("HttpRequest") ELSE parse_announce_response(http.body)

-----------------------------------------------------------------------------
(* Tracker: the inputs explored *)

MaxAnnounces == 2

Ports == {0, 6881, 65535}

\* What the random generator may write after the prefix: zeros, twelve 'b',
\* and "aZ9-._~ %*+/".
RandomTails ==
    {Repeat(0, 12), Repeat(98, 12),
     <<97, 90, 57, 45, 46, 95, 126, 32, 37, 42, 43, 47>>}

\* SHA-1 digests: twenty 'a', and one with bytes of every class:
\* AB ~ % space * + / = & 00 FF 7F - . _ 0 9 A z 1F
InfoHashes ==
    {Repeat(97, 20),
     <<171, 126, 37, 32, 42, 43, 47, 61, 38, 0, 255, 127, 45, 46, 95, 48, 57, 65,
       122, 31>>}

\* "http://t/a", "http://t/a?k=v" and "u"
AnnounceUrls ==
    {<<104, 116, 116, 112, 58, 47, 47, 116, 47, 97>>,
     <<104, 116, 116, 112, 58, 47, 47, 116, 47, 97, 63, 107, 61, 118>>,
     <<117>>}

\* The fields of a TorrentFile that announce reads
TorrentOf(announce_url, info_hash, length, files) ==
    [announce |-> announce_url,
     info_hash |-> info_hash,
     info |-> [length |-> length, files |-> files, is_directory |-> is_directory(files)]]

OneFile == [some |-> TRUE, v |-> Small(1048576)]

TrackerTorrents ==
    {TorrentOf(u, h, OneFile, <<>>) : u \in AnnounceUrls, h \in InfoHashes}
    \cup {TorrentOf(<<104, 116, 116, 112, 58, 47, 47, 116, 47, 97>>,
                     Repeat(97, 20), NoLength, files) :
            files \in {<<[length |-> Small(3), path |-> <<<<97>>>>],
                         [length |-> Small(4), path |-> <<<<98>>>>]>>,
                       <<[length |-> I64(FALSE, I64_MAX_MAG), path |-> <<<<97>>>>],
                         [length |-> Small(1), path |-> <<<<98>>>>]>>}}

\* One peer of a non-compact list
PeerEntry(ip, port) == BDict(DictOf({<<K_ip, BString(ip)>>, <<K_port, port>>}))

\* "peers" values: byte strings of 0, 5, 6 and 13 bytes; lists of
\* dictionaries with the addresses 10.0.0.2, ::1, "nohost" and 010.0.0.2;
\* a port out of range; a peer without port; a peer written as a list; a
\* list of integers; the empty list; an integer.
PeersFields ==
    <<NoValue,
     BString(<<>>),
     BString(<<127, 0, 0, 1, 26>>),
     BString(<<127, 0, 0, 1, 26, 225>>),
     BString(<<127, 0, 0, 1, 26, 225, 10, 0, 0, 2, 0, 80, 9>>),
     BList(<<PeerEntry(<<49, 48, 46, 48, 46, 48, 46, 50>>, IntOf(6881)),
             PeerEntry(<<58, 58, 49>>, IntOf(1)),
             PeerEntry(<<110, 111, 104, 111, 115, 116>>, IntOf(2)),
             PeerEntry(<<48, 49, 48, 46, 48, 46, 48, 46, 50>>, IntOf(3))>>),
     BList(<<PeerEntry(<<49, 48, 46, 48, 46, 48, 46, 50>>, IntOf(70000))>>),
     BList(<<PeerEntry(<<49, 48, 46, 48, 46, 48, 46, 50>>, NoValue)>>),
     BList(<<BList(<<BString(<<49, 48, 46, 48, 46, 48, 46, 50>>), IntOf(80)>>)>>),
     BList(<<IntOf(127), IntOf(0), IntOf(0), IntOf(1), IntOf(26), IntOf(225)>>),
     BList(<<IntOf(256)>>),
     BList(<<>>),
     IntOf(6)>>

IntervalFields == <<NoValue, IntOf(1800), NegOf(1), BString(<<49>>)>>

\* The bodies a tracker may answer with: dictionaries of the fields above,
\* written in bencode; a list; an integer; and text that is no bencode.
Bodies ==
    {Canonical(BDict(DictOf({<<K_interval, IntOf(1800)>>,
                             <<K_peers, PeersFields[p]>>}))) :
        p \in DOMAIN PeersFields}
    \cup {Canonical(BDict(DictOf({<<K_interval, IntervalFields[i]>>,
                                    <<K_peers, BString(<<127, 0, 0, 1, 26, 225>>)>>}))) :
            i \in DOMAIN IntervalFields}
    \cup {Canonical(BDict(DictOf({<<K_interval, IntervalFields[i]>>,
                                    <<K_peers, BList(<<>>)>>,
                                    <<<<120>>, IntOf(1)>>}))) :
            i \in DOMAIN IntervalFields}
    \cup {Canonical(BList(<<>>)), Canonical(BList(<<IntOf(5)>>)),
          Canonical(IntOf(1)), <<120>>, <<>>}

HttpOutcomes ==
    {NoBody} \cup {[ok |-> TRUE, body |-> b] : b \in Bodies}

\* What announce returns for each of them
Replies == [http \in HttpOutcomes |-> announce_receive(http)]

KInit ==
    /\ hsIdle
    /\ bIdle
    /\ tIdle
    /\ kbuild \in Builds
    /\ client = NoClient
    /\ requests = <<>>
    /\ received = NoBody
    /\ answer = NoAnswer

-----------------------------------------------------------------------------
(* Tracker: the operations *)

\* Client::new(port)
New ==
    /\ ~client.made
    /\ \E port \in Ports, random \in RandomTails :
        client' = Client_new(port, random)
    /\ UNCHANGED <<kbuild, requests, received, answer>>
    /\ UNCHANGED <<hsVars, bVars, tVars>>

\* client.announce(&torrent), from the call to its return
Announce ==
    /\ client.made
    /\ Len(requests) < MaxAnnounces
    /\ \E torrent \in TrackerTorrents :
        LET call == announce_send(client, torrent, kbuild)
        IN  IF ~call.sent.some
            THEN requests' = requests /\ received' = NoBody /\ answer' = call.ret
            ELSE /\ requests' = Append(requests, [request |-> call.sent.request,
                                                  url |-> call.sent.url])
                 /\ \E http \in HttpOutcomes :
                        received' = http /\ answer' = Replies[http]
    /\ UNCHANGED <<kbuild, client>>
    /\ UNCHANGED <<hsVars, bVars, tVars>>

KNext ==
    \/ New
    \/ Announce

SpecTracker == KInit /\ [][KNext]_vars

-----------------------------------------------------------------------------
(* Torrent: claims *)

\* The info dictionary of the input, the empty dictionary when it has none.
InputInfo ==
    IF tdata.t = "Dict" /\ get(tdata.v, K_info).some /\ get(tdata.v, K_info).v.t = "Dict"
    THEN get(tdata.v, K_info).v.v
    ELSE <<>>

\* The `pieces` string of the input, NoValue when it has none.
InputPieces ==
    IF get(InputInfo, K_pieces).some /\ get(InputInfo, K_pieces).v.t = "String"
    THEN get(InputInfo, K_pieces).v
    ELSE NoValue

\* The input with another `pieces` string in its info dictionary.
WithPieces(pieces) ==
    BDict([k \in DOMAIN tdata.v |->
              IF k = K_info
              THEN BDict([j \in DOMAIN InputInfo |->
                             IF j = K_pieces THEN BString(pieces) ELSE InputInfo[j]])
              ELSE tdata.v[k]])

Returned == tphase \in {"parsed", "called"} /\ tres.ok

\* C14: every TorrentFile parse returns has a `pieces` length that is a
\* multiple of 20, one entry of pieces_hash for every 20 bytes of it, and
\* entry i equal to bytes [20i, 20i + 20); an input whose `pieces` length is
\* not a multiple of 20 is rejected, with InvalidPiecesHashLength when
\* nothing else is wrong with it.
C14_PiecesHash ==
    /\ Returned =>
        /\ Len(tres.v.info.pieces) % 20 = 0
        /\ Len(tres.v.pieces_hash) = Len(tres.v.info.pieces) \div 20
        /\ \A i \in 0..(Len(tres.v.pieces_hash) - 1) :
              tres.v.pieces_hash[i + 1] = Slice(tres.v.info.pieces, 20 * i, 20 * i + 20)
    /\ (tphase = "parsed" /\ InputPieces # NoValue /\ Len(InputPieces.v) % 20 # 0) =>
        /\ ~tres.ok
        /\ parse(WithPieces(<<>>), tseed).ok =>
              tres.err.kind = "InvalidPiecesHashLength"

C14_Witness ==
    /\ tphase = "parsed" /\ tres.ok
    /\ Len(tres.v.pieces_hash) = 4
    /\ tres.v.pieces_hash[4] = Repeat(4, 20)

\* The sum of the lengths of a list of files, in the integers.
RECURSIVE ExactSum(_, _)
ExactSum(files, k) ==
    IF k > Len(files) THEN Zero
    ELSE SAdd(files[k].length, ExactSum(files, k + 1))

\* The total length of a parsed torrent, in the integers: the `length`
\* field (0 when absent) when the files list is empty, the sum of the file
\* lengths otherwise.
ExactTotal(tf) ==
    IF tf.info.files = <<>>
    THEN IF tf.info.length.some THEN tf.info.length.v ELSE Zero
    ELSE ExactSum(tf.info.files, 1)

\* total_length - (num_pieces - 1) * piece_length, in the integers.
Remainder(tf) ==
    SSub(ExactTotal(tf), STimes(num_pieces(tf) - 1, tf.info.piece_length))

\* The size the specification gives to piece `index`.
SpecPieceSize(tf, index) ==
    IF index >= num_pieces(tf) THEN Zero
    ELSE IF index < num_pieces(tf) - 1 THEN tf.info.piece_length
    ELSE IF Remainder(tf) = Zero THEN tf.info.piece_length
    ELSE Remainder(tf)

\* C15: piece_size(index) is 0 when index >= num_pieces, piece_length when
\* index < num_pieces - 1, and for the last piece
\* total_length - (num_pieces - 1) * piece_length, or piece_length when that
\* is zero; a single file of 1,048,576 bytes in 4 pieces of 262,144 has
\* piece_size(3) = 262,144.
C15_PieceSize ==
    (tphase = "called" /\ tcall.fn = "piece_size") =>
        /\ ~tcall.ret.panic
        /\ tcall.ret.v = SpecPieceSize(tres.v, tcall.index)
        /\ (/\ tres.v.info.files = <<>>
            /\ tres.v.info.length = [some |-> TRUE, v |-> Small(1048576)]
            /\ tres.v.info.piece_length = Small(262144)
            /\ num_pieces(tres.v) = 4
            /\ tcall.index = 3) => tcall.ret.v = Small(262144)

\* C16: for a TorrentFile returned by parse, every valid index i has
\* 0 < piece_size(i) <= piece_length; in particular the last piece is not
\* empty.
C16_PieceSizeBounds ==
    (tphase = "called" /\ tcall.fn = "piece_size"
        /\ tcall.index < num_pieces(tres.v)) =>
        /\ ~tcall.ret.panic
        /\ SLess(Zero, tcall.ret.v)
        /\ SLE(tcall.ret.v, tres.v.info.piece_length)

\* C17: every TorrentFile parse returns has piece_length > 0, no file of
\* negative length, and is_directory true exactly when the files list is
\* not empty; an input with a `piece length` of zero or less, or with a file
\* of negative length, is not turned into a TorrentFile.
C17_DataModel ==
    Returned =>
        /\ SLess(Zero, tres.v.info.piece_length)
        /\ \A k \in 1..Len(tres.v.info.files) :
              SLE(Zero, tres.v.info.files[k].length)
        /\ tres.v.info.is_directory = (tres.v.info.files # <<>>)

\* The `files` list and the `length` field of the input.
InputFiles ==
    IF get(InputInfo, K_files).some /\ get(InputInfo, K_files).v.t = "List"
    THEN get(InputInfo, K_files).v.v
    ELSE <<>>

InputLength ==
    IF get(InputInfo, K_length).some /\ get(InputInfo, K_length).v.t = "Integer"
    THEN get(InputInfo, K_length).v.v
    ELSE Zero

\* The sum of the `length` fields of the entries k.. of the `files` list.
RECURSIVE InputSum(_)
InputSum(k) ==
    IF k > Len(InputFiles) THEN Zero
    ELSE SAdd(InputFiles[k].v[K_length].v, InputSum(k + 1))

\* C18: total_length is the `length` field, 0 when absent, for a torrent
\* with an empty files list, and the sum of the file lengths for one with a
\* non-empty files list, also when the info dictionary has both `length`
\* and `files`.
C18_TotalLength ==
    (tphase = "called" /\ tcall.fn = "total_length") =>
        /\ ~tcall.ret.panic
        /\ tcall.ret.v = IF InputFiles = <<>> THEN InputLength ELSE InputSum(1)

\* The paths of the files k.. of a parsed torrent whose range in the
\* concatenation of the files, [file_start, file_end), overlaps
\* [piece_start, piece_end), all in the integers.
RECURSIVE Overlapping(_, _, _, _, _)
Overlapping(tf, k, file_start, piece_start, piece_end) ==
    IF k > Len(tf.info.files) THEN <<>>
    ELSE LET file_end == SAdd(file_start, tf.info.files[k].length)
         IN  (IF SLess(piece_start, file_end) /\ SLess(file_start, piece_end)
              THEN <<full_path(tf.info.name, tf.info.files[k].path, 1)>>
              ELSE <<>>)
             \o Overlapping(tf, k + 1, file_end, piece_start, piece_end)

SpecFilePaths(tf, index) ==
    IF index >= num_pieces(tf) THEN <<>>
    ELSE IF tf.info.files = <<>> THEN <<tf.info.name>>
    ELSE Overlapping(tf, 1, Zero, STimes(index, tf.info.piece_length),
                     SAdd(STimes(index, tf.info.piece_length),
                          SpecPieceSize(tf, index)))

\* C19: file_paths_for_piece(index) is empty when index >= num_pieces, the
\* one root path for a single-file torrent, and for a multi-file torrent
\* the files, in list order, whose range overlaps
\* [index * piece_length, index * piece_length + piece_size(index)); with
\* files of 100 and 5000 bytes and a piece length of 1024, piece 0 has both.
C19_FilePaths ==
    (tphase = "called" /\ tcall.fn = "file_paths_for_piece") =>
        /\ ~tcall.ret.panic
        /\ tcall.ret.v = SpecFilePaths(tres.v, tcall.index)
        /\ (/\ Len(tres.v.info.files) = 2
            /\ tres.v.info.files[1].length = Small(100)
            /\ tres.v.info.files[2].length = Small(5000)
            /\ tres.v.info.piece_length = Small(1024)
            /\ tcall.index = 0
            /\ num_pieces(tres.v) > 0) => Len(tcall.ret.v) = 2

\* C20: the info-hash depends on the decoded info dictionary and on
\* nothing else: parsing the same input again, whatever the state of the
\* HashMap's hasher, gives the same hash, and so does parsing an input that
\* differs from it only outside `info`.
C20_InfoHashStable ==
    (tphase = "parsed" /\ tres.ok) =>
        /\ \A seed \in Seeds : parse(tdata, seed) = tres
        /\ tres.v.info_hash = Sha1(Canonical(BDict(InputInfo)))
        /\ \A outer \in Outers :
              LET other == parse(RootValue(outer, BDict(InputInfo)), MaxSeed - tseed)
              IN  other.ok => other.v.info_hash = tres.v.info_hash

C20_Witness ==
    /\ tphase = "parsed" /\ tres.ok /\ tseed # 0
    /\ K_comment \in DOMAIN tdata.v
    /\ K_private \in DOMAIN InputInfo


\* What parsing the file `raw` gives: the decoder's error, or the result of
\* TorrentFile::parse.
ParsedFile(raw, seed) ==
    LET decoded == decode_next(FileBytes(raw), 1)
    IN  IF decoded.ok THEN parse(decoded.val, seed) ELSE TFail("Bencode", decoded.err.kind)

\* C21: two .torrent files that both parse and whose `info` dictionary
\* bytes differ in at least one byte have different info-hashes.
C21_InfoHashSensitive ==
    (tphase = "parsed" /\ tres.ok /\ traw # NoRaw) =>
        \A other \in TorrentFiles :
            (other.info # traw.info /\ ParsedFile(other, tseed).ok)
                => ParsedFile(other, tseed).v.info_hash # tres.v.info_hash

\* The input without the key `key` in its root dictionary.
Without(key) == BDict([k \in DOMAIN tdata.v \ {key} |-> tdata.v[k]])

\* C22: when the root dictionary has the key `creation date` with a
\* non-negative integer t, the creation_date of the result is the Unix
\* epoch plus t seconds; when its value is a negative integer parse fails,
\* with DateParseError when nothing else is wrong with the input; when the
\* key is absent, creation_date is None.
C22_CreationDate ==
    (tphase = "parsed" /\ tdata.t = "Dict") =>
        LET date == get(tdata.v, K_creation_date)
        IN  /\ (date.some /\ date.v.t = "Integer" /\ ~date.v.v.neg /\ tres.ok)
                => tres.v.creation_date = [some |-> TRUE, secs |-> date.v.v.mag]
            /\ (date.some /\ date.v.t = "Integer" /\ date.v.v.neg)
                => /\ ~tres.ok
                   /\ parse(Without(K_creation_date), tseed).ok
                        => tres.err.kind = "DateParseError"
            /\ (~date.some /\ tres.ok) => tres.v.creation_date = NoDate

\* The variants of BencodeError that say what is wrong with an input
DecodeErrors == {"UnexpectedEOI", "InvalidFormat", "InvalidInteger", "InvalidStringLength"}

\* C27: decoding the input ends with a value or with a BencodeError; from
\* whatever position of the input a value is decoded, decoding it consumes
\* at least one byte and never reads past the end; and an input that ends
\* early, inside a list, dictionary, integer or string length, is rejected
\* with UnexpectedEOI.
C27_DecoderTerminates ==
    bphase \in {"decoded", "str_decoded", "int_decoded"} =>
        /\ bres.ok \/ bres.err.kind \in DecodeErrors
        /\ \A p \in 1..(Len(bbytes) + 1) :
            LET r == decode_next(bbytes, p)
            IN  r.ok => p < r.pos /\ r.pos <= Len(bbytes) + 1
        /\ (bphase = "decoded" /\ bbytes \in TruncatedInputs)
            => ~bres.ok /\ bres.err.kind = "UnexpectedEOI"

\* The first of the required fields, in the order root, announce, info,
\* piece length, pieces, name, that the input lacks or has with the wrong
\* type or not in UTF-8; "none" when it has them all.
FirstBad ==
    LET wrong(dict, key, variant) ==
            ~(key \in DOMAIN dict /\ dict[key].t = variant)
        utf8(dict, key) == IsUtf8(dict[key].v, 1)
    IN  IF tdata.t # "Dict" THEN "root"
        ELSE IF wrong(tdata.v, K_announce, "String") \/ ~utf8(tdata.v, K_announce)
        THEN "announce"
        ELSE IF wrong(tdata.v, K_info, "Dict") THEN "info"
        ELSE IF wrong(tdata.v[K_info].v, K_piece_length, "Integer") THEN "piece length"
        ELSE IF wrong(tdata.v[K_info].v, K_pieces, "String") THEN "pieces"
        ELSE IF wrong(tdata.v[K_info].v, K_name, "String")
                \/ ~utf8(tdata.v[K_info].v, K_name)
        THEN "name"
        ELSE "none"

\* The field an error of parse names
Named(err) ==
    CASE err.detail = "Root is not a dictionary" -> "root"
      [] err.detail \in {"announce", "announce(not string)",
                         "Invalid announce Url (not UTF-8)"} -> "announce"
      [] err.detail \in {"info", "info is not a dict", "Info is not a dictionary"} -> "info"
      [] err.detail = "piece length" -> "piece length"
      [] err.detail = "pieces" -> "pieces"
      [] err.detail \in {"name", "Invalid name (not UTF-8)"} -> "name"
      [] OTHER -> "other"

TorrentFileFields ==
    {"announce", "announce_list", "creation_date", "comment", "created_by",
     "encoding", "info", "info_hash", "pieces_hash"}

\* C26: parse returns a TorrentFile, with every field filled, only when the
\* root is a dictionary and announce, info, piece length, pieces and name
\* are present and well-typed; otherwise it returns a MissingField or
\* InvalidFormat error that names the first of them that is not.
C26_AllOrNothing ==
    tphase = "parsed" =>
        /\ tres.ok => FirstBad = "none" /\ DOMAIN tres.v = TorrentFileFields
        /\ ~tres.ok => tres.v = <<>>
        /\ FirstBad # "none" =>
            /\ ~tres.ok
            /\ tres.err.kind \in {"MissingField", "InvalidFormat"}
            /\ Named(tres.err) = FirstBad

\* Rejected for `piece length` when `pieces` is missing too.
C26_Witness ==
    /\ tphase = "parsed" /\ ~tres.ok
    /\ FirstBad = "piece length"
    /\ K_pieces \notin DOMAIN tdata.v[K_info].v

\* The precondition of C30: piece_length > 0, total_length() > 0 and
\* num_pieces() = ceil(total_length() / piece_length), that is
\* (num_pieces - 1) * piece_length < total_length <= num_pieces * piece_length.
ExactlyCut(build, tf) ==
    LET total == total_length(build, tf)
    IN  /\ ~total.panic
        /\ SLess(Zero, tf.info.piece_length)
        /\ SLess(Zero, total.v)
        /\ num_pieces(tf) >= 1
        /\ SLess(STimes(num_pieces(tf) - 1, tf.info.piece_length), total.v)
        /\ SLE(total.v, STimes(num_pieces(tf), tf.info.piece_length))

\* Where piece `index` starts and ends in the data: [i * piece_length,
\* i * piece_length + piece_size(i)), in the integers.
PieceStart(tf, index) == STimes(index, tf.info.piece_length)
PieceEnd(build, tf, index) ==
    SAdd(PieceStart(tf, index), piece_size(build, tf, index).v)

\* piece_size(0) + .. + piece_size(n - 1), in the integers.
RECURSIVE SizesSum(_, _, _)
SizesSum(build, tf, n) ==
    IF n = 0 THEN Zero
    ELSE SAdd(SizesSum(build, tf, n - 1), piece_size(build, tf, n - 1).v)

\* C30: for a TorrentFile with piece_length > 0, total_length > 0 and
\* num_pieces = ceil(total_length / piece_length), the piece sizes add up to
\* total_length, and the ranges [i * piece_length, i * piece_length +
\* piece_size(i)) are disjoint and cover [0, total_length): none is empty,
\* the first starts at 0, each ends where the next starts and the last ends
\* at total_length.
C30_PiecesCoverTorrent ==
    (tphase = "called" /\ tcall.fn = "piece_size" /\ ExactlyCut(tbuild, tres.v)) =>
        LET tf == tres.v
            n == num_pieces(tf)
            total == total_length(tbuild, tf).v
        IN  /\ \A i \in 0..(n - 1) : ~piece_size(tbuild, tf, i).panic
            /\ SizesSum(tbuild, tf, n) = total
            /\ PieceStart(tf, 0) = Zero
            /\ \A i \in 0..(n - 1) :
                  SLess(PieceStart(tf, i), PieceEnd(tbuild, tf, i))
            /\ \A i \in 0..(n - 2) :
                  PieceEnd(tbuild, tf, i) = PieceStart(tf, i + 1)
            /\ PieceEnd(tbuild, tf, n - 1) = total
            /\ tcall.index < n =>
                  tcall.ret = Value(SSub(PieceEnd(tbuild, tf, tcall.index),
                                         PieceStart(tf, tcall.index)))

\* The last of three pieces of 4 bytes was asked for, of a torrent of 10
\* bytes: it has 2.
C30_Witness ==
    /\ tphase = "called" /\ tcall.fn = "piece_size" /\ tcall.index = 2
    /\ ExactlyCut(tbuild, tres.v)
    /\ num_pieces(tres.v) = 3
    /\ tres.v.info.piece_length = Small(4)
    /\ total_length(tbuild, tres.v) = Value(Small(10))
    /\ tcall.ret = Value(Small(2))

-----------------------------------------------------------------------------
(* Tracker: claims *)

\* The value of the parameter `name` in a query: the text after "name=" in
\* the first of the parts between the '&' that starts with it.
QueryValue(query, name) ==
    LET starts == {k \in 1..(Len(query) - Len(name)) :
                     /\ SubSeq(query, k, k + Len(name)) = name \o <<61>>
                     /\ k = 1 \/ query[k - 1] = 38}
    IN  IF starts = {} THEN <<>>
        ELSE LET from == (CHOOSE k \in starts : \A j \in starts : k <= j)
                             + Len(name) + 1
                 ends == {k \in from..Len(query) : query[k] = 38} \cup {Len(query) + 1}
                 to == CHOOSE k \in ends : \A j \in ends : k <= j
             IN  SubSeq(query, from, to - 1)

\* Percent-encoding as the claim has it: unreserved bytes as they are, the
\* others as '%' and two uppercase hex digits.
Unreserved == AlphaNum \cup {45, 46, 95, 126}

RECURSIVE PercentEncoding(_)
PercentEncoding(bytes) ==
    IF bytes = <<>> THEN <<>>
    ELSE (IF bytes[1] \in Unreserved THEN <<bytes[1]>>
          ELSE <<37, Hex(bytes[1] \div 16), Hex(bytes[1] % 16)>>)
         \o PercentEncoding(Tail(bytes))

HexValue(c) == IF c \in 48..57 THEN c - 48 ELSE IF c \in 65..70 THEN c - 55 ELSE -1

\* Percent-decoding, once: %XX becomes the byte XX, the rest is kept.
RECURSIVE PercentDecoded(_)
PercentDecoded(text) ==
    IF text = <<>> THEN <<>>
    ELSE IF text[1] = 37 /\ Len(text) >= 3 /\ HexValue(text[2]) >= 0 /\ HexValue(text[3]) >= 0
    THEN <<16 * HexValue(text[2]) + HexValue(text[3])>>
            \o PercentDecoded(SubSeq(text, 4, Len(text)))
    ELSE <<text[1]>> \o PercentDecoded(Tail(text))

\* C23: in every URL announce has requested, the values of info_hash and of
\* peer_id are the percent-encodings of the raw 20 bytes of the request, and
\* percent-decoding them once gives the raw bytes back.
C23_AnnounceUrlEncoding ==
    \A k \in DOMAIN requests :
        LET query == requests[k].url.query
            request == requests[k].request
        IN  /\ QueryValue(query, P_info_hash) = PercentEncoding(request.info_hash)
            /\ QueryValue(query, P_peer_id) = PercentEncoding(request.peer_id)
            /\ PercentDecoded(QueryValue(query, P_info_hash)) = request.info_hash
            /\ PercentDecoded(QueryValue(query, P_peer_id)) = request.peer_id

\* The value of `peers` in the body received, NoValue when the body is no
\* dictionary, has no `peers` or has an `interval` that is no integer.
ReceivedPeers ==
    LET body == decode_next(received.body, 1)
    IN  IF received.ok /\ body.ok /\ body.val.t = "Dict"
           /\ K_peers \in DOMAIN body.val.v
           /\ (K_interval \in DOMAIN body.val.v => body.val.v[K_interval].t = "Integer")
        THEN body.val.v[K_peers]
        ELSE NoValue

\* C24: when `peers` is a byte string of n bytes, announce returns
\* floor(n / 6) peers, peer k with the IPv4 address bytes 6k..6k+3 and the
\* port 256 * byte 6k+4 + byte 6k+5.
C24_CompactPeers ==
    ReceivedPeers.t = "String" =>
        LET bytes == ReceivedPeers.v
        IN  /\ answer.ok
            /\ Len(answer.v.peers) = Len(bytes) \div 6
            /\ \A k \in 0..(Len(bytes) \div 6 - 1) :
                /\ answer.v.peers[k + 1].ip =
                      [family |-> "V4", addr |-> SubSeq(bytes, 6 * k + 1, 6 * k + 4)]
                /\ answer.v.peers[k + 1].port = 256 * bytes[6 * k + 5] + bytes[6 * k + 6]

====
